---- MODULE Spec2Model ----
(***************************************************************************)
(* Model of the posting path of yap_on_slack/post_messages.py:             *)
(*   - the exception hierarchy,                                            *)
(*   - AppConfig.select_user,                                              *)
(*   - the tenacity-decorated delivery functions post_message and          *)
(*     add_reaction, as functions of what the transport answers at each    *)
(*     attempt,                                                            *)
(*   - the posting loop of main(), one step per delivery call.             *)
(* The message list is the input of the run.  The number of messages and   *)
(* the number of replies of each message are fixed before the loop         *)
(* (total_posts is computed from them); the other fields of a message are  *)
(* drawn at the line where main() reads them.                              *)
(***************************************************************************)
EXTENDS Integers, Sequences, FiniteSets, TLC

\* ---------------------------------------------------------------- bounds
MaxMsgs == 2
MaxReplies == 2
MaxUsers == 2
\* runs long enough for the round robin to wrap around
LongRunMsgs == 3
LongRunReplies == 1
\* largest message_index of a direct call of select_user
MaxIndex == 3

\* ------------------------------------------------------------- constants
None == "None"

\* tenacity decorator arguments of post_message / add_reaction
WaitMultiplier == 1
WaitMin == 2
WaitMax == 30
StopAttempts == 3
\* default of response.headers.get("Retry-After", "60")
DefaultRetryAfter == "60"

Max2(a, b) == IF a >= b THEN a ELSE b
Min2(a, b) == IF a <= b THEN a ELSE b

RECURSIVE Pow(_, _)
Pow(b, e) == IF e = 0 THEN 1 ELSE b * Pow(b, e - 1)

Range(s) == {s[k] : k \in 1..Len(s)}

\* ----------------------------------------------------- exception classes
\* class SlackAPIError(Exception); SlackRateLimitError(SlackAPIError);
\* SlackNetworkError(SlackAPIError); InvalidMessageFormatError(Exception)
ExcParent(cls) ==
    IF cls \in {"SlackRateLimitError", "SlackNetworkError"} THEN "SlackAPIError"
    ELSE "Exception"

IsInstance(exc, cls) ==
    \/ exc = cls
    \/ cls = "Exception"
    \/ ExcParent(exc) = cls

\* ------------------------------------------------------------ identities
\* names of the configured identities, in configuration order
UserNames == <<"default", "alice", "bob", "carol">>

\* AppConfig._user_index_by_name: index of the first user with that name, 0 if none
UserIndexByName(users, name) ==
    IF \E k \in 1..Len(users) : users[k] = name
    THEN CHOOSE k \in 1..Len(users) :
            /\ users[k] = name
            /\ \A j \in 1..(k - 1) : users[j] # name
    ELSE 0

\* variant: the index is clamped to the last user instead of wrapping
RoundRobinClamped(users, message_index) ==
    users[Min2(message_index, Len(users) - 1) + 1]

\* the round_robin branch of select_user (0-based message_index)
RoundRobin(users, message_index) == users[(message_index % Len(users)) + 1]

\* variant: an unknown name falls back to the strategy
SelectUserLenient(users, strategy, name, message_index) ==
    IF Len(users) = 0 THEN {"ValueError"}
    ELSE IF name # None /\ name # "" /\ UserIndexByName(users, name) # 0
    THEN {users[UserIndexByName(users, name)]}
    ELSE IF strategy = "random" THEN Range(users)
    ELSE {RoundRobin(users, message_index)}

\* AppConfig.select_user: the set of possible outcomes, a user name or "ValueError"
SelectUser(users, strategy, name, message_index) ==
    IF Len(users) = 0 THEN {"ValueError"}
    ELSE IF name # None /\ name # ""
    THEN IF UserIndexByName(users, name) = 0
         THEN {"ValueError"}
         ELSE {users[UserIndexByName(users, name)]}
    ELSE IF strategy = "random" THEN Range(users)
    ELSE {RoundRobin(users, message_index)}

\* ------------------------------------------------------- delivery client
TsSet == {"1700.1"}

FatalChannelCodes == {"channel_not_found", "not_in_channel"}
FatalAuthCodes == {"invalid_auth", "token_revoked", "token_expired"}
ErrorCodes ==
    {"ratelimited", "invalid_name", "already_reacted", "msg_too_long"}
        \cup FatalChannelCodes \cup FatalAuthCodes

\* what httpx.post(...) followed by response.json() can produce:
\*   exc   : the exception raised ("" if none)
\*   ok    : the "ok" field of the parsed body
\*   error : the "error" field of the parsed body
\*   ts    : the "ts" field of the parsed body
\*   retry_after : the Retry-After header (None when absent)
Resp(exc, ok, error, ts, retry_after) ==
    [exc |-> exc, ok |-> ok, error |-> error, ts |-> ts, retry_after |-> retry_after]

TransportExceptions == {"TimeoutException", "NetworkError"}

Responses ==
    {Resp(e, FALSE, "", None, None) : e \in TransportExceptions \cup {"JSONDecodeError"}}
    \cup {Resp("", TRUE, "", t, None) : t \in TsSet}
    \cup {Resp("", FALSE, c, None, None) : c \in ErrorCodes}
    \cup {Resp("", FALSE, "ratelimited", None, h) : h \in {"30", "60"}}

Return(val) == [kind |-> "return", exc |-> "", val |-> val]
Raise(exc, val) == [kind |-> "raise", exc |-> exc, val |-> val]
NoResult == [kind |-> "none", exc |-> "", val |-> ""]

\* variant: the Retry-After header is ignored
RetryAfterOfIgnoringHeader(resp) == DefaultRetryAfter

RetryAfterOf(resp) ==
    IF resp.retry_after = None THEN DefaultRetryAfter ELSE resp.retry_after

\* the types a text argument is drawn from: a str, a value that is not a str but
\* can be sliced (a list), and a value that cannot be sliced (an int such as 123)
TextTypes == {"str", "list", "int"}
Sliceable == {"str", "list"}

\* variant: a body that cannot be parsed is treated as a network failure
PostMessageBodyParseIsNetwork(ttype, resp) ==
    IF ttype \notin Sliceable THEN Raise("TypeError", "")
    ELSE IF ttype # "str" THEN Raise("InvalidMessageFormatError", "")
    ELSE IF resp.exc # "" THEN Raise("SlackNetworkError", "")
    ELSE IF resp.ok THEN Return(resp.ts)
    ELSE IF resp.error = "ratelimited" THEN Raise("SlackRateLimitError", RetryAfterOf(resp))
    ELSE IF resp.error \in FatalChannelCodes THEN Raise("SlackAPIError", resp.error)
    ELSE IF resp.error \in FatalAuthCodes THEN Raise("SlackAPIError", resp.error)
    ELSE Return(None)

\* one execution of the body of post_message: the debug log slices the text
\* (text[:50]) before the text is parsed, and the parser rejects what is not a str
PostMessageBody(ttype, resp) ==
    IF ttype \notin Sliceable THEN Raise("TypeError", "")
    ELSE IF ttype # "str" THEN Raise("InvalidMessageFormatError", "")
    ELSE IF resp.exc \in TransportExceptions THEN Raise("SlackNetworkError", "")
    ELSE IF resp.exc # "" THEN Return(None)
    ELSE IF resp.ok THEN Return(resp.ts)
    ELSE IF resp.error = "ratelimited" THEN Raise("SlackRateLimitError", RetryAfterOf(resp))
    ELSE IF resp.error \in FatalChannelCodes THEN Raise("SlackAPIError", resp.error)
    ELSE IF resp.error \in FatalAuthCodes THEN Raise("SlackAPIError", resp.error)
    ELSE Return(None)

\* variant: no branch for already_reacted
AddReactionBodyNoAlreadyReacted(resp) ==
    IF resp.exc \in TransportExceptions THEN Raise("SlackNetworkError", "")
    ELSE IF resp.exc # "" THEN Return("False")
    ELSE IF resp.ok THEN Return("True")
    ELSE IF resp.error = "ratelimited" THEN Raise("SlackRateLimitError", RetryAfterOf(resp))
    ELSE Return("False")

\* variant: the codes post_message treats as fatal raise SlackAPIError here too
AddReactionBodyFatalRaises(resp) ==
    IF resp.exc \in TransportExceptions THEN Raise("SlackNetworkError", "")
    ELSE IF resp.exc # "" THEN Return("False")
    ELSE IF resp.ok THEN Return("True")
    ELSE IF resp.error = "ratelimited" THEN Raise("SlackRateLimitError", RetryAfterOf(resp))
    ELSE IF resp.error = "invalid_name" THEN Return("False")
    ELSE IF resp.error = "already_reacted" THEN Return("True")
    ELSE IF resp.error \in FatalChannelCodes \cup FatalAuthCodes
         THEN Raise("SlackAPIError", resp.error)
    ELSE Return("False")

\* one execution of the body of add_reaction
AddReactionBody(resp) ==
    IF resp.exc \in TransportExceptions THEN Raise("SlackNetworkError", "")
    ELSE IF resp.exc # "" THEN Return("False")
    ELSE IF resp.ok THEN Return("True")
    ELSE IF resp.error = "ratelimited" THEN Raise("SlackRateLimitError", RetryAfterOf(resp))
    ELSE IF resp.error = "invalid_name" THEN Return("False")
    ELSE IF resp.error = "already_reacted" THEN Return("True")
    ELSE Return("False")

\* retry=retry_if_exception_type((httpx.TimeoutException, httpx.NetworkError, SlackNetworkError))
\* variant: every SlackAPIError is retried
RetryIfAnySlackError(exc) ==
    \/ IsInstance(exc, "TimeoutException")
    \/ IsInstance(exc, "NetworkError")
    \/ IsInstance(exc, "SlackAPIError")

\* variant: a rate-limited attempt is retried too
RetryIfRateLimited(exc) ==
    \/ IsInstance(exc, "TimeoutException")
    \/ IsInstance(exc, "NetworkError")
    \/ IsInstance(exc, "SlackNetworkError")
    \/ IsInstance(exc, "SlackRateLimitError")

RetryIf(exc) ==
    \/ IsInstance(exc, "TimeoutException")
    \/ IsInstance(exc, "NetworkError")
    \/ IsInstance(exc, "SlackNetworkError")

\* variant: one attempt more
StopAfterAttemptFour(attempt) == attempt >= StopAttempts + 1

\* stop=stop_after_attempt(3)
StopAfterAttempt(attempt) == attempt >= StopAttempts

\* wait=wait_exponential(multiplier=1, min=2, max=30), as tenacity computes it:
\*   exp = exp_base ** (attempt_number - 1); result = multiplier * exp
\*   max(max(0, min), min(result, max))
\* variant: exp_base ** attempt_number
WaitExponentialDoubling(attempt) ==
    Max2(Max2(0, WaitMin), Min2(WaitMultiplier * Pow(2, attempt), WaitMax))

WaitExponential(attempt) ==
    Max2(Max2(0, WaitMin), Min2(WaitMultiplier * Pow(2, attempt - 1), WaitMax))

\* reraise=True: on exhaustion the last exception itself is raised, not RetryError
Reraise == TRUE

\* the body of the decorated function f, executed once
Body(f, ttype, resp) ==
    IF f = "post_message" THEN PostMessageBody(ttype, resp) ELSE AddReactionBody(resp)

\* whether one execution of the body of f gets as far as httpx.post
HttpReached(f, ttype) == f = "add_reaction" \/ ttype = "str"

\* tenacity's loop around f, with n attempts made, the waits ws slept and the
\* answers rs received so far: every way the call can go on to end, as records of
\* its outcome, the number of attempts, the waits between them and the answers
\* the transport gave
RECURSIVE Retrying(_, _, _, _, _)
Retrying(f, ttype, n, ws, rs) ==
    UNION {
        LET out == Body(f, ttype, resp)
            rs2 == IF HttpReached(f, ttype) THEN Append(rs, resp) ELSE rs
        IN  IF out.kind = "raise" /\ RetryIf(out.exc)
            THEN IF StopAfterAttempt(n + 1)
                 THEN {[result |-> IF Reraise THEN out ELSE Raise("RetryError", ""),
                        attempt_number |-> n + 1, waits |-> ws, resps |-> rs2]}
                 ELSE Retrying(f, ttype, n + 1,
                               Append(ws, WaitExponential(n + 1)), rs2)
            ELSE {[result |-> out, attempt_number |-> n + 1, waits |-> ws,
                   resps |-> rs2]}
        : resp \in Responses}

\* post_message(text, config, thread_ts) / add_reaction(...) as decorated
PostMessage(ttype) == Retrying("post_message", ttype, 0, <<>>, <<>>)
AddReaction == Retrying("add_reaction", "str", 0, <<>>, <<>>)

\* what main observes of the end of a call: the value returned, or the class of
\* the exception (its message is only logged)
Observed(res) == IF res.kind = "raise" THEN Raise(res.exc, "") ELSE res

\* every way a call made by main can end (main always passes a str)
PostMessageResults == {Observed(call.result) : call \in PostMessage("str")}
AddReactionResults == {Observed(call.result) : call \in AddReaction}

\* "if result:" / "if reply_result:" of main
Truthy(res) == res.kind = "return" /\ res.val # None

\* --------------------------------------------------------- input of main
\* strings that main() inspects are sequences of one-character strings
Whitespace == {" ", "\t", "\n"}
EmojiChars ==
    {"a", "b", "c", "d", "e", "f", "g", "h", "i", "j", "k", "l", "m", "n", "o", "p",
     "q", "r", "s", "t", "u", "v", "w", "x", "y", "z", "_",
     "0", "1", "2", "3", "4", "5", "6", "7", "8", "9"}

\* "not reply_text.strip()"
IsBlank(s) == \A k \in 1..Len(s) : s[k] \in Whitespace

\* variant: str.lstrip(":")
RECURSIVE StripColonsLeading(_)
StripColonsLeading(s) ==
    IF Len(s) = 0 THEN s
    ELSE IF Head(s) = ":" THEN StripColonsLeading(Tail(s))
    ELSE s

\* str.strip(":")
RECURSIVE StripColons(_)
StripColons(s) ==
    IF Len(s) = 0 THEN s
    ELSE IF Head(s) = ":" THEN StripColons(Tail(s))
    ELSE IF s[Len(s)] = ":" THEN StripColons(SubSeq(s, 1, Len(s) - 1))
    ELSE s

\* re.search(r":([a-z_0-9]+):", text): the positions <<p, q>> of the two colons of
\* the leftmost match, <<0, 0>> if there is none
EmojiMatchAt(text, p, q) ==
    /\ text[p] = ":"
    /\ text[q] = ":"
    /\ q > p + 1
    /\ \A k \in (p + 1)..(q - 1) : text[k] \in EmojiChars

\* variant: the last match of the text
EmojiSearchLast(text) ==
    IF \E p, q \in 1..Len(text) : EmojiMatchAt(text, p, q)
    THEN CHOOSE m \in (1..Len(text)) \X (1..Len(text)) :
            /\ EmojiMatchAt(text, m[1], m[2])
            /\ \A p, q \in 1..Len(text) : EmojiMatchAt(text, p, q) => m[1] >= p
    ELSE <<0, 0>>

EmojiSearch(text) ==
    IF \E p, q \in 1..Len(text) : EmojiMatchAt(text, p, q)
    THEN CHOOSE m \in (1..Len(text)) \X (1..Len(text)) :
            /\ EmojiMatchAt(text, m[1], m[2])
            /\ \A p, q \in 1..Len(text) : EmojiMatchAt(text, p, q) => m[1] <= p
    ELSE <<0, 0>>

MessageTexts ==
    {<<"h", "i">>,
     <<"o", "k", " ", ":", "O", "K", ":", "w", "a", "v", "e", ":", ":", "b", ":">>}
MessageUsers == {None, "alice", "ghost"}
ForcedUsers == {None, "alice"}
ReactionLists ==
    {<<>>, <<<<":">>, <<":", "T", "a", ":">>, <<"b">>>>}
ReplyTexts == {<<" ">>, <<"y", "o">>}
ReplyUsers == {None, "alice", "ghost"}
ReplySet == [text : ReplyTexts, user : ReplyUsers]
Strategies == {"round_robin", "random"}

RECURSIVE SumSeq(_)
SumSeq(s) == IF Len(s) = 0 THEN 0 ELSE Head(s) + SumSeq(Tail(s))

\* total_posts = sum(1 + len(msg.get("replies", [])) for msg in messages)
TotalPosts(counts) == Len(counts) + SumSeq(counts)

\* message_index arguments of the two select_user calls of main (i is 1-based)
MessageIndex(msg_no) == msg_no - 1
\* variant: the position of the reply alone
ReplyMessageIndexNoOffset(msg_no, ridx) == ridx

ReplyMessageIndex(msg_no, ridx) == (msg_no - 1) + 1 + ridx

\* user_name = forced_user if forced_user else (str(message_user) if message_user else None)
UserName(forced, message_user) ==
    IF forced # None /\ forced # "" THEN forced
    ELSE IF message_user # None /\ message_user # "" THEN message_user
    ELSE None

\* variant: the reaction handlers let SlackRateLimitError through
ReactionCatchesNoRateLimit(exc) ==
    \/ IsInstance(exc, "SlackNetworkError")
    \/ IsInstance(exc, "RetryError")

\* the except clauses of main
\*   around one reaction:  (SlackNetworkError, RetryError) | SlackRateLimitError
ReactionCatches(exc) ==
    \/ IsInstance(exc, "SlackNetworkError")
    \/ IsInstance(exc, "RetryError")
    \/ IsInstance(exc, "SlackRateLimitError")
\*   around one reply:     (SlackNetworkError, RetryError) | SlackAPIError
ReplyCatches(exc) ==
    \/ IsInstance(exc, "SlackNetworkError")
    \/ IsInstance(exc, "RetryError")
    \/ IsInstance(exc, "SlackAPIError")
\* variant: no "except SlackAPIError" clause around the message
MessageCatchesNoAPIError(exc) ==
    \/ IsInstance(exc, "SlackNetworkError")
    \/ IsInstance(exc, "RetryError")
    \/ IsInstance(exc, "InvalidMessageFormatError")

\*   around one message:   (SlackNetworkError, RetryError) | SlackAPIError | InvalidMessageFormatError
MessageCatches(exc) ==
    \/ IsInstance(exc, "SlackNetworkError")
    \/ IsInstance(exc, "RetryError")
    \/ IsInstance(exc, "SlackAPIError")
    \/ IsInstance(exc, "InvalidMessageFormatError")

\* ------------------------------------------------------------------ state
VARIABLES
    users,          \* app_config.users (names, in order)
    strategy,       \* app_config.strategy
    forced_user,    \* args.user
    reply_counts,   \* len(msg["replies"]) of every message of the list
    dry_run,        \* args.dry_run
    total_posts,
    pc,             \* position of main(), or of the caller of the delivery client
    i,              \* 1-based number of the current message
    msg_data,       \* text and user of the current message
    posting_user,
    thread_ts,
    ai_reactions,
    r_idx,          \* position in ai_reactions
    reply_idx,
    reply,          \* the current reply
    reply_user,
    sel_index,      \* message_index of the latest select_user call for a reply
    success,
    failed,
    result,         \* how the latest delivery call ended
    sent,           \* the latest delivery call made for the current message
    slept,          \* the delays slept in the latest step of main
    fn,             \* delivery client called directly: the function,
    text_type,      \*   the type of its text argument,
    attempt_number, \*   the attempts made,
    waits,          \*   the backoff waits slept,
    resps,          \*   what the transport answered to each attempt
    threaded_messages, \* fetch_channel_messages: how many messages have replies,
    batch_start,    \*   the index at which the current batch starts,
    batch,          \*   how many messages the current batch holds,
    submitted,      \*   how many of them were handed to the executor,
    in_flight,      \*   how many fetches are started and not ended,
    done,           \*   the ended fetches as_completed has not yielded yet, by outcome,
    yielded,        \*   how many futures of the batch the loop has handled,
    with_replies,   \*   how many messages got their "replies" entry,
    seen_ratelimited, \* how many fetches observed the code ratelimited,
    throttles       \*   how many throttle waits were slept between batches

vars == <<users, strategy, forced_user, reply_counts, dry_run, total_posts, pc, i,
          msg_data, posting_user, thread_ts, ai_reactions, r_idx, reply_idx, reply,
          reply_user, sel_index, success, failed, result, sent, slept, fn, text_type,
          attempt_number, waits, resps, threaded_messages, batch_start, batch,
          submitted, in_flight, done, yielded, with_replies, seen_ratelimited,
          throttles>>

config_vars == <<users, strategy, forced_user, reply_counts, dry_run, total_posts>>
main_vars == <<i, msg_data, posting_user, thread_ts, ai_reactions, r_idx, reply_idx,
               reply, reply_user, sel_index, success, failed>>
client_vars == <<fn, text_type, attempt_number, waits, resps>>
fetch_vars == <<threaded_messages, batch_start, batch, submitted, in_flight, done,
                yielded, with_replies, seen_ratelimited, throttles>>

NoMessage == [text |-> <<>>, user |-> None]
NoReply == [text |-> <<>>, user |-> None]

RECURSIVE SeqsUpTo(_, _)
SeqsUpTo(S, n) ==
    IF n = 0 THEN {<<>>}
    ELSE SeqsUpTo(S, n - 1)
            \cup {Append(sq, x) : sq \in {t \in SeqsUpTo(S, n - 1) : Len(t) = n - 1}, x \in S}

\* the arguments of a delivery call that main makes: the call site, the number
\* of the message and the position in its list of reactions or replies, and
\*   for post_message the thread_ts and reply_broadcast fields of the form data
\*     (None when the field is absent),
\*   for add_reaction the emoji name and the timestamp of the target
NoCall ==
    [site |-> None, msg |-> 0, idx |-> 0, thread_ts |-> None, reply_broadcast |-> None,
     emoji |-> <<>>, timestamp |-> None]

\* variant: the thread fields are never put in the form data
PostCallUnthreaded(site, msg_no, idx, ts) ==
    [site |-> site, msg |-> msg_no, idx |-> idx, thread_ts |-> None,
     reply_broadcast |-> None, emoji |-> <<>>, timestamp |-> None]

\* post_message(text, config, thread_ts=ts):
\*   if thread_ts: data["reply_broadcast"] = "false"; data["thread_ts"] = thread_ts
PostCall(site, msg_no, idx, ts) ==
    [site |-> site, msg |-> msg_no, idx |-> idx,
     thread_ts |-> IF ts # None /\ ts # "" THEN ts ELSE None,
     reply_broadcast |-> IF ts # None /\ ts # "" THEN "false" ELSE None,
     emoji |-> <<>>, timestamp |-> None]

\* add_reaction(channel, thread_ts, emoji_name, request_config)
ReactionCall(site, msg_no, idx, emoji, ts) ==
    [site |-> site, msg |-> msg_no, idx |-> idx, thread_ts |-> None,
     reply_broadcast |-> None, emoji |-> emoji, timestamp |-> ts]

MainIdle ==
    /\ i = 0
    /\ msg_data = NoMessage
    /\ posting_user = None
    /\ thread_ts = None
    /\ ai_reactions = <<>>
    /\ r_idx = 0
    /\ reply_idx = 0
    /\ reply = NoReply
    /\ reply_user = None
    /\ sel_index = -1
    /\ success = 0
    /\ failed = 0
    /\ result = NoResult
    /\ sent = NoCall
    /\ slept = <<>>

ClientIdle ==
    /\ fn = None
    /\ text_type = "str"
    /\ attempt_number = 0
    /\ waits = <<>>
    /\ resps = <<>>

\* what a fetch of the replies of one thread can end with: the replies, an empty
\* list, SlackRateLimitError, or an exception the fetch does not handle
Outcomes == {"replies", "empty", "ratelimited", "error"}

FetchIdle ==
    /\ threaded_messages = 0
    /\ batch_start = 0
    /\ batch = 0
    /\ submitted = 0
    /\ in_flight = 0
    /\ done = [o \in Outcomes |-> 0]
    /\ yielded = 0
    /\ with_replies = 0
    /\ seen_ratelimited = 0
    /\ throttles = 0

\* main() once the configuration and the messages are loaded and total_posts is
\* computed
Init ==
    /\ \E n \in 1..MaxUsers : users = SubSeq(UserNames, 1, n)
    /\ strategy \in Strategies
    /\ forced_user \in ForcedUsers
    /\ reply_counts \in SeqsUpTo(0..MaxReplies, MaxMsgs)
    /\ dry_run \in BOOLEAN
    /\ total_posts = TotalPosts(reply_counts)
    /\ pc = "preview"
    /\ MainIdle
    /\ ClientIdle
    /\ FetchIdle

\* ------------------------------------------------------- actions of main
\* the values local to one iteration are cleared where main() stops reading them
\* (the user field of the message once it is posted, its text too when explicit
\* reactions rule out the fallback, the author and the reactions when the reply
\* loop begins, the reply once it is counted)
ClearMessage ==
    /\ msg_data' = NoMessage
    /\ posting_user' = None
    /\ ai_reactions' = <<>>
    /\ r_idx' = 0

ClearReply ==
    /\ reply' = NoReply
    /\ reply_user' = None

\* the end of an iteration whose post is counted as failed
\* variant: a failed post is counted twice
MessageFailedTwice ==
    /\ failed' = failed + 2
    /\ pc' = "advance"

MessageFailed ==
    /\ failed' = failed + 1
    /\ pc' = "advance"

\* an exception leaving the try block of the message: counted, or ends the run
MessageRaise(exc) ==
    /\ IF MessageCatches(exc)
       THEN MessageFailed
       ELSE failed' = failed /\ pc' = "crashed"
    /\ thread_ts' = None
    /\ reply_idx' = 0
    /\ ClearMessage
    /\ ClearReply

\* variant: the dry run does not return
DryRunThenPost ==
    /\ pc = "preview"
    /\ dry_run
    /\ pc' = "for_message"
    /\ UNCHANGED <<config_vars, fetch_vars, client_vars, main_vars, result, sent, slept>>

\* "if args.dry_run: ... return" after the preview of the messages
DryRun ==
    /\ pc = "preview"
    /\ dry_run
    /\ pc' = "dry_run_done"
    /\ UNCHANGED <<config_vars, fetch_vars, client_vars, main_vars, result, sent, slept>>

\* "success = 0; failed = 0" and the entry of the posting loop
StartPosting ==
    /\ pc = "preview"
    /\ ~dry_run
    /\ pc' = "for_message"
    /\ UNCHANGED <<config_vars, fetch_vars, client_vars, main_vars, result, sent, slept>>

\* top of one iteration of "for i, msg_data in enumerate(messages, 1)": reads the
\* message and selects its author.  select_user is called outside every try
\* block: its ValueError ends the run.
StartMessage ==
    /\ pc = "for_message"
    /\ i < Len(reply_counts)
    /\ \E text \in MessageTexts, message_user \in MessageUsers :
        \E u \in SelectUser(users, strategy, UserName(forced_user, message_user),
                            MessageIndex(i + 1)) :
            IF u = "ValueError"
            THEN /\ pc' = "crashed"
                 /\ result' = Raise("ValueError", "")
                 /\ UNCHANGED <<msg_data, posting_user>>
            ELSE /\ pc' = "post_message"
                 /\ result' = NoResult
                 /\ msg_data' = [text |-> text, user |-> message_user]
                 /\ posting_user' = u
    /\ i' = i + 1
    /\ slept' = <<>>
    /\ UNCHANGED <<config_vars, fetch_vars, client_vars, thread_ts, ai_reactions, r_idx, reply_idx,
                   reply, reply_user, sel_index, success, failed, sent>>

\* "result = post_message(text, request_config)" and what main does with it
PostTopLevel ==
    /\ pc = "post_message"
    /\ \E res \in PostMessageResults :
        /\ result' = res
        /\ IF Truthy(res)
           THEN /\ success' = success + 1
                /\ failed' = failed
                /\ thread_ts' = res.val
                /\ ai_reactions' \in ReactionLists
                /\ pc' = "for_reaction"
                /\ msg_data' = IF ai_reactions' = <<>>
                               THEN [msg_data EXCEPT !.user = None]
                               ELSE NoMessage
                /\ UNCHANGED <<posting_user, r_idx, reply_idx, reply, reply_user>>
           ELSE /\ success' = success
                /\ IF res.kind = "return"
                   THEN /\ MessageFailed
                        /\ thread_ts' = None
                        /\ reply_idx' = 0
                        /\ ClearMessage
                        /\ ClearReply
                   ELSE MessageRaise(res.exc)
    /\ sent' = PostCall("message", i, 0, None)
    /\ slept' = <<>>
    /\ UNCHANGED <<config_vars, fetch_vars, client_vars, i, sel_index>>

\* one iteration of "for reaction_emoji in ai_reactions": the delay, the strip,
\* the call when the name is not empty, the two except clauses
NextReaction ==
    /\ pc = "for_reaction"
    /\ r_idx < Len(ai_reactions)
    /\ IF StripColons(ai_reactions[r_idx + 1]) # <<>>
       THEN \E res \in AddReactionResults :
              /\ result' = res
              /\ IF res.kind = "return" \/ ReactionCatches(res.exc)
                 THEN /\ pc' = "for_reaction"
                      /\ r_idx' = r_idx + 1
                      /\ UNCHANGED <<msg_data, posting_user, thread_ts, ai_reactions,
                                     reply_idx, reply, reply_user, failed>>
                 ELSE MessageRaise(res.exc)
       ELSE /\ result' = NoResult
            /\ pc' = "for_reaction"
            /\ r_idx' = r_idx + 1
            /\ UNCHANGED <<msg_data, posting_user, thread_ts, ai_reactions, reply_idx,
                           reply, reply_user, failed>>
    /\ sent' = IF StripColons(ai_reactions[r_idx + 1]) # <<>>
               THEN ReactionCall("reaction", i, r_idx,
                                 StripColons(ai_reactions[r_idx + 1]), thread_ts)
               ELSE sent
    /\ slept' = <<"reaction_delay">>
    /\ UNCHANGED <<config_vars, fetch_vars, client_vars, i, sel_index, success>>

\* "replies = msg_data.get("replies", [])": the reply loop begins
EnterReplies ==
    /\ pc' = "for_reply"
    /\ reply_idx' = 0
    /\ ClearMessage
    /\ UNCHANGED <<thread_ts, reply, reply_user, failed>>

\* "if not ai_reactions:" with an emoji in the text: the fallback reaction
FallbackReaction ==
    /\ pc = "for_reaction"
    /\ r_idx = Len(ai_reactions)
    /\ ai_reactions = <<>>
    /\ EmojiSearch(msg_data.text) # <<0, 0>>
    /\ \E res \in AddReactionResults :
        /\ result' = res
        /\ IF res.kind = "return" \/ ReactionCatches(res.exc)
           THEN EnterReplies
           ELSE MessageRaise(res.exc)
    /\ sent' = ReactionCall("fallback", i, 0,
                            SubSeq(msg_data.text, EmojiSearch(msg_data.text)[1] + 1,
                                   EmojiSearch(msg_data.text)[2] - 1),
                            thread_ts)
    /\ slept' = <<"reaction_delay">>
    /\ UNCHANGED <<config_vars, fetch_vars, client_vars, i, sel_index, success>>

\* explicit reactions were given, or the text holds no emoji: no fallback
NoFallbackReaction ==
    /\ pc = "for_reaction"
    /\ r_idx = Len(ai_reactions)
    /\ ~(ai_reactions = <<>> /\ EmojiSearch(msg_data.text) # <<0, 0>>)
    /\ EnterReplies
    /\ result' = NoResult
    /\ slept' = <<>>
    /\ UNCHANGED <<config_vars, fetch_vars, client_vars, i, sel_index, success, sent>>

\* an exception raised inside the try block of one reply
ReplyRaise(exc) ==
    IF ReplyCatches(exc)
    THEN /\ failed' = failed + 1
         /\ reply_idx' = reply_idx + 1
         /\ pc' = "for_reply"
         /\ ClearReply
         /\ UNCHANGED <<msg_data, posting_user, ai_reactions, r_idx, thread_ts>>
    ELSE MessageRaise(exc)

\* one iteration of "for reply_idx, reply in enumerate(replies)" up to the call:
\* the delay, the empty-text check, select_user
StartReply ==
    /\ pc = "for_reply"
    /\ reply_idx < reply_counts[i]
    /\ \E rp \in ReplySet :
        IF IsBlank(rp.text)
        THEN /\ result' = Raise("InvalidMessageFormatError", "")
             /\ ReplyRaise("InvalidMessageFormatError")
             /\ sel_index' = sel_index
        ELSE /\ sel_index' = ReplyMessageIndex(i, reply_idx)
             /\ \E u \in SelectUser(users, strategy, rp.user,
                                    ReplyMessageIndex(i, reply_idx)) :
                 IF u = "ValueError"
                 THEN /\ result' = Raise("ValueError", "")
                      /\ ReplyRaise("ValueError")
                 ELSE /\ result' = NoResult
                      /\ reply' = rp
                      /\ reply_user' = u
                      /\ pc' = "post_reply"
                      /\ UNCHANGED <<msg_data, posting_user, ai_reactions, r_idx,
                                     thread_ts, reply_idx, failed>>
    /\ slept' = <<"reply_delay">>
    /\ UNCHANGED <<config_vars, fetch_vars, client_vars, i, success, sent>>

\* "reply_result = post_message(reply_text, reply_request_config, thread_ts=thread_ts)"
\* and the counting of the reply
PostReply ==
    /\ pc = "post_reply"
    /\ \E res \in PostMessageResults :
        /\ result' = res
        /\ IF res.kind = "return"
           THEN /\ IF Truthy(res)
                   THEN success' = success + 1 /\ failed' = failed
                   ELSE success' = success /\ failed' = failed + 1
                /\ reply_idx' = reply_idx + 1
                /\ pc' = "for_reply"
                /\ ClearReply
                /\ UNCHANGED <<msg_data, posting_user, ai_reactions, r_idx, thread_ts>>
           ELSE /\ ReplyRaise(res.exc)
                /\ success' = success
    /\ sent' = PostCall("reply", i, reply_idx, thread_ts)
    /\ slept' = <<>>
    /\ UNCHANGED <<config_vars, fetch_vars, client_vars, i, sel_index>>

\* variant: the reply loop is run a second time
RepliesDoneTwice ==
    /\ pc = "for_reply"
    /\ reply_idx = reply_counts[i]
    /\ pc' = IF reply_idx > 0 /\ sent.idx > 0 THEN "for_reply" ELSE "advance"
    /\ result' = NoResult
    /\ thread_ts' = IF reply_idx > 0 /\ sent.idx > 0 THEN thread_ts ELSE None
    /\ reply_idx' = 0
    /\ slept' = <<>>
    /\ UNCHANGED <<config_vars, fetch_vars, client_vars, i, msg_data, posting_user, ai_reactions,
                   r_idx, reply, reply_user, sel_index, success, failed, sent>>

\* the reply loop is exhausted
RepliesDone ==
    /\ pc = "for_reply"
    /\ reply_idx = reply_counts[i]
    /\ pc' = "advance"
    /\ result' = NoResult
    /\ thread_ts' = None
    /\ reply_idx' = 0
    /\ slept' = <<>>
    /\ UNCHANGED <<config_vars, fetch_vars, client_vars, i, msg_data, posting_user, ai_reactions,
                   r_idx, reply, reply_user, sel_index, success, failed, sent>>

\* variant: the inter-message delay is slept after the last message too
AdvanceAlwaysDelay ==
    /\ pc = "advance"
    /\ pc' = "for_message"
    /\ result' = NoResult
    /\ sent' = NoCall
    /\ slept' = <<"delay">>
    /\ UNCHANGED <<config_vars, fetch_vars, client_vars, i, msg_data, posting_user, thread_ts,
                   ai_reactions, r_idx, reply_idx, reply, reply_user, sel_index,
                   success, failed>>

\* end of one iteration: progress.advance and the inter-message delay
\* "if i < len(messages): time.sleep(args.delay)"
Advance ==
    /\ pc = "advance"
    /\ pc' = "for_message"
    /\ result' = NoResult
    /\ sent' = NoCall
    /\ slept' = IF i < Len(reply_counts) THEN <<"delay">> ELSE <<>>
    /\ UNCHANGED <<config_vars, fetch_vars, client_vars, i, msg_data, posting_user, thread_ts,
                   ai_reactions, r_idx, reply_idx, reply, reply_user, sel_index,
                   success, failed>>

\* the message loop is exhausted: the completion summary
Summary ==
    /\ pc = "for_message"
    /\ i = Len(reply_counts)
    /\ pc' = "summary"
    /\ slept' = <<>>
    /\ UNCHANGED <<config_vars, fetch_vars, client_vars, main_vars, result, sent>>

Next ==
    \/ DryRun
    \/ StartPosting
    \/ StartMessage
    \/ PostTopLevel
    \/ NextReaction
    \/ FallbackReaction
    \/ NoFallbackReaction
    \/ StartReply
    \/ PostReply
    \/ RepliesDone
    \/ Advance
    \/ Summary

Spec == Init /\ [][Next]_vars

\* the same program over longer message lists with fewer replies and every
\* identity configured
InitLongRun ==
    /\ users = SubSeq(UserNames, 1, MaxUsers)
    /\ strategy \in Strategies
    /\ forced_user \in ForcedUsers
    /\ reply_counts \in [1..LongRunMsgs -> 0..LongRunReplies]
    /\ dry_run \in BOOLEAN
    /\ total_posts = TotalPosts(reply_counts)
    /\ pc = "preview"
    /\ MainIdle
    /\ ClientIdle
    /\ FetchIdle

SpecLongRun == InitLongRun /\ [][Next]_vars

\* --------------------------------- the delivery client, called directly
\* a caller about to call post_message or add_reaction once
InitClient ==
    /\ users = SubSeq(UserNames, 1, 1)
    /\ strategy = "round_robin"
    /\ forced_user = None
    /\ reply_counts = <<>>
    /\ dry_run = FALSE
    /\ total_posts = 0
    /\ pc = "client"
    /\ MainIdle
    /\ FetchIdle
    /\ fn = None
    /\ text_type \in TextTypes
    /\ attempt_number = 0
    /\ waits = <<>>
    /\ resps = <<>>

CallEnds(call) ==
    /\ result' = call.result
    /\ attempt_number' = call.attempt_number
    /\ waits' = call.waits
    /\ resps' = call.resps
    /\ pc' = "client_done"

CallPostMessage ==
    /\ pc = "client"
    /\ fn' = "post_message"
    /\ \E call \in PostMessage(text_type) : CallEnds(call)
    /\ UNCHANGED <<config_vars, fetch_vars, main_vars, text_type, sent, slept>>

CallAddReaction ==
    /\ pc = "client"
    /\ text_type = "str"
    /\ fn' = "add_reaction"
    /\ \E call \in AddReaction : CallEnds(call)
    /\ UNCHANGED <<config_vars, fetch_vars, main_vars, text_type, sent, slept>>

NextClient ==
    \/ CallPostMessage
    \/ CallAddReaction

SpecClient == InitClient /\ [][NextClient]_vars

\* --------------------------------------------- direct calls of select_user
\* names given to select_user and names of configured identities
SelectNames == {None, "", "alice", "Alice", "bob"}
IdentityNames == {"default", "alice", "bob"}

\* app_config.select_user(name=msg_data.user, message_index=sel_index) on any
\* list of identities, the empty one included
InitSelect ==
    /\ users \in SeqsUpTo(IdentityNames, MaxUsers)
    /\ strategy \in Strategies
    /\ forced_user = None
    /\ reply_counts = <<>>
    /\ dry_run = FALSE
    /\ total_posts = 0
    /\ pc = "select"
    /\ i = 0
    /\ msg_data \in [text : {<<>>}, user : SelectNames]
    /\ posting_user = None
    /\ thread_ts = None
    /\ ai_reactions = <<>>
    /\ r_idx = 0
    /\ reply_idx = 0
    /\ reply = NoReply
    /\ reply_user = None
    /\ sel_index \in 0..MaxIndex
    /\ success = 0
    /\ failed = 0
    /\ result = NoResult
    /\ sent = NoCall
    /\ slept = <<>>
    /\ ClientIdle
    /\ FetchIdle

CallSelectUser ==
    /\ pc = "select"
    /\ pc' = "select_done"
    /\ \E u \in SelectUser(users, strategy, msg_data.user, sel_index) :
        IF u = "ValueError"
        THEN result' = Raise("ValueError", "") /\ posting_user' = None
        ELSE result' = Return(u) /\ posting_user' = u
    /\ UNCHANGED <<config_vars, fetch_vars, client_vars, i, msg_data, thread_ts, ai_reactions, r_idx,
                   reply_idx, reply, reply_user, sel_index, success, failed, sent, slept>>

NextSelect == CallSelectUser

SpecSelect == InitSelect /\ [][NextSelect]_vars

\* ------------------------- fetch_channel_messages: the replies of the threads
\* batch_size = 10
BatchSize == 10
MaxThreads == 11

\* what httpx.post(conversations.replies) followed by response.json() and the
\* reading of the body can produce in fetch_single_thread
FetchResponses ==
    {Resp(e, FALSE, "", None, None) :
        e \in TransportExceptions \cup {"JSONDecodeError", "AttributeError"}}
    \cup {Resp("", TRUE, "", None, None)}
    \cup {Resp("", FALSE, c, None, None) : c \in {"ratelimited", "thread_not_found"}}

\* the body says: not ok, error ratelimited
ObservesRatelimited(resp) == resp.exc = "" /\ ~resp.ok /\ resp.error = "ratelimited"

\* variant: a rate-limited fetch gives an empty list of replies like any other
\* failed fetch
FetchSingleThreadSwallows(resp) ==
    IF resp.exc \in TransportExceptions \cup {"JSONDecodeError"} THEN Return("empty")
    ELSE IF resp.exc # "" THEN Raise(resp.exc, "")
    ELSE IF resp.ok THEN Return("replies")
    ELSE Return("empty")

\* fetch_single_thread(msg) for a message with a ts
FetchSingleThread(resp) ==
    IF resp.exc \in TransportExceptions \cup {"JSONDecodeError"} THEN Return("empty")
    ELSE IF resp.exc # "" THEN Raise(resp.exc, "")
    ELSE IF resp.ok THEN Return("replies")
    ELSE IF resp.error = "ratelimited"
         THEN Raise("SlackRateLimitError", RetryAfterOf(resp))
    ELSE Return("empty")

\* what future.result() does in the loop over as_completed
OutcomeOf(res) ==
    IF res.kind = "return" THEN res.val
    ELSE IF res.exc = "SlackRateLimitError" THEN "ratelimited"
    ELSE "error"

\* variant: a throttle wait after every batch
ThrottleAfterEveryBatch(start, count) == TRUE

\* "if batch_start + batch_size < len(threaded_messages): time.sleep(throttle)"
ThrottleAfter(start, count) == start + BatchSize < count

\* batch_num of the batch in hand
BatchNum == batch_start \div BatchSize + 1

InitFetch ==
    /\ users = SubSeq(UserNames, 1, 1)
    /\ strategy = "round_robin"
    /\ forced_user = None
    /\ reply_counts = <<>>
    /\ dry_run = FALSE
    /\ total_posts = 0
    /\ pc = "fetch_replies"
    /\ MainIdle
    /\ ClientIdle
    /\ threaded_messages \in 0..MaxThreads
    /\ batch_start = 0
    /\ batch = 0
    /\ submitted = 0
    /\ in_flight = 0
    /\ done = [o \in Outcomes |-> 0]
    /\ yielded = 0
    /\ with_replies = 0
    /\ seen_ratelimited = 0
    /\ throttles = 0

\* the function returns its result to the caller
FetchReturns ==
    /\ pc' = "fetch_returned"
    /\ result' = Return("messages")

\* "if threaded_messages:" once the history is fetched
FetchReplies ==
    /\ pc = "fetch_replies"
    /\ IF threaded_messages > 0
       THEN pc' = "fetch_for" /\ result' = result
       ELSE FetchReturns
    /\ UNCHANGED <<config_vars, client_vars, main_vars, fetch_vars, sent, slept>>

\* "for batch_start in range(0, len(threaded_messages), batch_size)": the next
\* batch is cut and the executor is entered, or the loop is exhausted
ForBatch ==
    /\ pc = "fetch_for"
    /\ IF batch_start < threaded_messages
       THEN /\ batch' = Min2(BatchSize, threaded_messages - batch_start)
            /\ pc' = "fetch_submit"
            /\ result' = result
       ELSE /\ batch' = batch
            /\ FetchReturns
    /\ submitted' = 0
    /\ yielded' = 0
    /\ UNCHANGED <<config_vars, client_vars, main_vars, sent, slept, threaded_messages,
                   batch_start, in_flight, done, with_replies, seen_ratelimited,
                   throttles>>

\* executor.submit(fetch_single_thread, msg) for the next message of the batch:
\* the pool has as many workers as a batch has messages, the fetch starts
Submit ==
    /\ pc = "fetch_submit"
    /\ submitted < batch
    /\ submitted' = submitted + 1
    /\ in_flight' = in_flight + 1
    /\ UNCHANGED <<config_vars, client_vars, main_vars, result, sent, slept, pc,
                   threaded_messages, batch_start, batch, done, yielded, with_replies,
                   seen_ratelimited, throttles>>

\* every message of the batch is submitted: the loop over as_completed starts
AsCompleted ==
    /\ pc = "fetch_submit"
    /\ submitted = batch
    /\ pc' = "fetch_as_completed"
    /\ UNCHANGED <<config_vars, client_vars, main_vars, fetch_vars, result, sent, slept>>

\* a worker ends its fetch_single_thread: the future holds a result or an exception
FetchEnds ==
    /\ in_flight > 0
    /\ \E resp \in FetchResponses :
        /\ done' = [done EXCEPT ![OutcomeOf(FetchSingleThread(resp))] = @ + 1]
        /\ seen_ratelimited' =
                seen_ratelimited + (IF ObservesRatelimited(resp) THEN 1 ELSE 0)
    /\ in_flight' = in_flight - 1
    /\ UNCHANGED <<config_vars, client_vars, main_vars, result, sent, slept, pc,
                   threaded_messages, batch_start, batch, submitted, yielded,
                   with_replies, throttles>>

\* one iteration of "for future in as_completed(futures)": the replies are stored,
\* SlackRateLimitError is raised again, any other exception is logged
HandleFuture ==
    /\ pc = "fetch_as_completed"
    /\ \E o \in Outcomes :
        /\ done[o] > 0
        /\ done' = [done EXCEPT ![o] = @ - 1]
        /\ IF o = "ratelimited"
           THEN /\ pc' = "fetch_shutdown"
                /\ result' = Raise("SlackRateLimitError", "")
                /\ with_replies' = with_replies
           ELSE /\ pc' = pc
                /\ result' = result
                /\ with_replies' = with_replies + (IF o = "error" THEN 0 ELSE 1)
    /\ yielded' = yielded + 1
    /\ UNCHANGED <<config_vars, client_vars, main_vars, sent, slept, threaded_messages,
                   batch_start, batch, submitted, in_flight, seen_ratelimited,
                   throttles>>

\* every future is handled: the executor is left and the throttle wait is slept
\* when another batch follows
BatchDone ==
    /\ pc = "fetch_as_completed"
    /\ yielded = batch
    /\ throttles' = throttles + (IF ThrottleAfter(batch_start, threaded_messages)
                                 THEN 1 ELSE 0)
    /\ batch_start' = batch_start + BatchSize
    /\ pc' = "fetch_for"
    /\ UNCHANGED <<config_vars, client_vars, main_vars, result, sent, slept,
                   threaded_messages, batch, submitted, in_flight, done, yielded,
                   with_replies, seen_ratelimited>>

\* the exception leaves the "with" block: the executor waits for the fetches
\* still running, then the exception reaches the caller
Shutdown ==
    /\ pc = "fetch_shutdown"
    /\ in_flight = 0
    /\ pc' = "fetch_raised"
    /\ UNCHANGED <<config_vars, client_vars, main_vars, fetch_vars, result, sent, slept>>

NextFetch ==
    \/ FetchReplies
    \/ ForBatch
    \/ Submit
    \/ AsCompleted
    \/ FetchEnds
    \/ HandleFuture
    \/ BatchDone
    \/ Shutdown

SpecFetch == InitFetch /\ [][NextFetch]_vars

\* every thread that can take a step is scheduled in the end: a fetch ends (its
\* request has a timeout), the loop handles a future that is ready
SpecFetchFair == SpecFetch /\ WF_vars(NextFetch)

TypeOK ==
    /\ pc \in {"for_message", "post_message", "for_reaction", "for_reply", "post_reply",
               "advance", "summary", "crashed", "client", "client_done",
               "preview", "dry_run_done",
               "select", "select_done", "parse", "parse_done", "parse_raised",
               "fetch_replies", "fetch_for", "fetch_submit", "fetch_as_completed",
               "fetch_shutdown", "fetch_returned", "fetch_raised"}
    /\ in_flight \in 0..BatchSize
    /\ throttles \in 0..MaxThreads
    /\ i \in 0..Len(reply_counts)
    /\ attempt_number \in 0..StopAttempts
    /\ success \in 0..total_posts
    /\ failed \in 0..total_posts
    /\ result.kind \in {"none", "return", "raise"}

\* --------------------------------------------- parse_rich_text_from_string
\* a text is a sequence of one-character strings; Bullet stands for the one
\* character U+2022 and Backtick for the one character U+0060
Bullet == "U+2022"
Backtick == "U+0060"
UpperChars ==
    {"A", "B", "C", "D", "E", "F", "G", "H", "I", "J", "K", "L", "M", "N", "O", "P",
     "Q", "R", "S", "T", "U", "V", "W", "X", "Y", "Z"}
\* \w of the pattern, and the class of "@username"
WordChars == EmojiChars \cup UpperChars
UsernameChars == WordChars \cup {".", "-"}

\* the last index of the longest run of characters (not) in cls that starts
\* at p; p - 1 when the run is empty
RunIn(s, p, cls) ==
    CHOOSE q \in (p - 1)..Len(s) :
        /\ \A k \in p..q : s[k] \in cls
        /\ q = Len(s) \/ s[q + 1] \notin cls
RunNotIn(s, p, cls) ==
    CHOOSE q \in (p - 1)..Len(s) :
        /\ \A k \in p..q : s[k] \notin cls
        /\ q = Len(s) \/ s[q + 1] \in cls

\* str.startswith at an offset, "w in s", str.strip(), str.lstrip()
StartsWith(s, p, w) == p + Len(w) - 1 <= Len(s) /\ SubSeq(s, p, p + Len(w) - 1) = w
Contains(s, w) == \E p \in 1..Len(s) : StartsWith(s, p, w)
LStrip(s) == SubSeq(s, RunIn(s, 1, Whitespace) + 1, Len(s))
Strip(s) ==
    LET t == LStrip(s)
    IN  IF t = <<>> THEN t
        ELSE SubSeq(t, 1, CHOOSE q \in 1..Len(t) :
                            t[q] \notin Whitespace /\ \A k \in (q + 1)..Len(t) : t[k] \in Whitespace)

\* str.split(sep) for a one-character sep
RECURSIVE Split(_, _)
Split(s, sep) ==
    IF \A k \in 1..Len(s) : s[k] # sep THEN <<s>>
    ELSE <<SubSeq(s, 1, RunNotIn(s, 1, {sep}))>>
            \o Split(SubSeq(s, RunNotIn(s, 1, {sep}) + 2, Len(s)), sep)

\* str.rstrip("/")
RStripSlash(s) ==
    IF \A k \in 1..Len(s) : s[k] = "/" THEN <<>>
    ELSE SubSeq(s, 1, CHOOSE q \in 1..Len(s) :
                        s[q] # "/" /\ \A k \in (q + 1)..Len(s) : s[k] = "/")

\* the spans
Span(type, text, style, url, name, rng) ==
    [type |-> type, text |-> text, style |-> style, url |-> url, name |-> name,
     range |-> rng]
PlainText(text) == Span("text", text, None, None, None, None)
Styled(text, style) == Span("text", text, style, None, None, None)
Link(url, label) == Span("link", label, None, url, None, None)
Emoji(name) == Span("emoji", None, None, None, name, None)
Broadcast(rng) == Span("broadcast", None, None, None, None, rng)
Newline == PlainText(<<"\n">>)

\* a match of the pattern: the alternative that matched (1..10 in the order of
\* the pattern), its first and last index, and its inner groups
Match(alt, first, last, g, h) ==
    [alt |-> alt, start |-> first, end |-> last, g |-> g, h |-> h]
NoMatch == Match(0, 0, 0, None, None)

\* (\*\*)([^*]+?)\1
DoubleAsterisk(s, p) ==
    IF /\ StartsWith(s, p, <<"*", "*">>)
       /\ RunNotIn(s, p + 2, {"*"}) >= p + 2
       /\ StartsWith(s, RunNotIn(s, p + 2, {"*"}) + 1, <<"*", "*">>)
    THEN Match(1, p, RunNotIn(s, p + 2, {"*"}) + 2,
               SubSeq(s, p + 2, RunNotIn(s, p + 2, {"*"})), None)
    ELSE NoMatch

\* variant: no lookahead after the closing asterisk
SingleAsteriskNoLookahead(s, p) ==
    IF /\ s[p] = "*"
       /\ p + 1 <= Len(s)
       /\ s[p + 1] \notin Whitespace \cup {"*"}
       /\ RunNotIn(s, p + 1, {"*"}) < Len(s)
       /\ s[RunNotIn(s, p + 1, {"*"})] \notin Whitespace
    THEN Match(2, p, RunNotIn(s, p + 1, {"*"}) + 1,
               SubSeq(s, p + 1, RunNotIn(s, p + 1, {"*"})), None)
    ELSE NoMatch

\* (\*)([^\s*][^*]*?[^\s*]|[^\s*])\3(?!\*)
SingleAsterisk(s, p) ==
    IF /\ s[p] = "*"
       /\ p + 1 <= Len(s)
       /\ s[p + 1] \notin Whitespace \cup {"*"}
       /\ RunNotIn(s, p + 1, {"*"}) < Len(s)
       /\ s[RunNotIn(s, p + 1, {"*"})] \notin Whitespace
       /\ ~StartsWith(s, RunNotIn(s, p + 1, {"*"}) + 1, <<"*", "*">>)
    THEN Match(2, p, RunNotIn(s, p + 1, {"*"}) + 1,
               SubSeq(s, p + 1, RunNotIn(s, p + 1, {"*"})), None)
    ELSE NoMatch

\* (_)([^_]+?)\5, (~)([^~]+?)\7 and the same with U+0060 and \9
Delimited(s, p, d, alt) ==
    IF /\ s[p] = d
       /\ p + 1 <= Len(s)
       /\ s[p + 1] # d
       /\ RunNotIn(s, p + 1, {d}) < Len(s)
    THEN Match(alt, p, RunNotIn(s, p + 1, {d}) + 1,
               SubSeq(s, p + 1, RunNotIn(s, p + 1, {d})), None)
    ELSE NoMatch

\* https?:// at p: the index that follows it, 0 when it is not there
SchemeEnd(s, p) ==
    IF StartsWith(s, p, <<"h", "t", "t", "p", "s", ":", "/", "/">>) THEN p + 8
    ELSE IF StartsWith(s, p, <<"h", "t", "t", "p", ":", "/", "/">>) THEN p + 7
    ELSE 0

\* (<(https?://[^|>]+)(?:\|([^>]+))?[^<]*>): the greedy url runs up to the first
\* "|" or ">", the greedy label up to the next ">", and the match ends with the
\* last ">" that comes before the next "<"
BracketLinkFrom(s, p, ue) ==
    LET labelled == s[ue + 1] = "|" /\ s[ue + 2] # ">"
        le == RunNotIn(s, ue + 2, {">"})
        tail == IF labelled THEN le + 1 ELSE ue + 1
        last == CHOOSE q \in tail..RunNotIn(s, tail, {"<"}) :
                    /\ s[q] = ">"
                    /\ \A k \in (q + 1)..RunNotIn(s, tail, {"<"}) : s[k] # ">"
    IN  Match(6, p, last, SubSeq(s, p + 1, ue),
              IF labelled THEN SubSeq(s, ue + 2, le) ELSE None)

BracketLink(s, p) ==
    IF /\ s[p] = "<"
       /\ SchemeEnd(s, p + 1) # 0
       /\ RunNotIn(s, SchemeEnd(s, p + 1), {"|", ">"}) >= SchemeEnd(s, p + 1)
       /\ \E k \in (RunNotIn(s, SchemeEnd(s, p + 1), {"|", ">"}) + 1)..Len(s) : s[k] = ">"
    THEN BracketLinkFrom(s, p, RunNotIn(s, SchemeEnd(s, p + 1), {"|", ">"}))
    ELSE NoMatch

\* (https?://[^\s<>]+)
RawUrl(s, p) ==
    IF /\ SchemeEnd(s, p) # 0
       /\ RunNotIn(s, SchemeEnd(s, p), Whitespace \cup {"<", ">"}) >= SchemeEnd(s, p)
    THEN Match(7, p, RunNotIn(s, SchemeEnd(s, p), Whitespace \cup {"<", ">"}),
               SubSeq(s, p, RunNotIn(s, SchemeEnd(s, p), Whitespace \cup {"<", ">"})),
               None)
    ELSE NoMatch

\* (:([a-z_0-9]+):)
EmojiCode(s, p) ==
    IF /\ s[p] = ":"
       /\ RunIn(s, p + 1, EmojiChars) >= p + 1
       /\ RunIn(s, p + 1, EmojiChars) < Len(s)
       /\ s[RunIn(s, p + 1, EmojiChars) + 1] = ":"
    THEN Match(8, p, RunIn(s, p + 1, EmojiChars) + 1,
               SubSeq(s, p + 1, RunIn(s, p + 1, EmojiChars)), None)
    ELSE NoMatch

\* (@(here|channel|everyone))\b
BroadcastRanges ==
    <<<<"h", "e", "r", "e">>, <<"c", "h", "a", "n", "n", "e", "l">>,
      <<"e", "v", "e", "r", "y", "o", "n", "e">>>>
BroadcastWord(s, p, w) ==
    /\ StartsWith(s, p + 1, w)
    /\ p + Len(w) = Len(s) \/ s[p + Len(w) + 1] \notin WordChars
BroadcastMention(s, p) ==
    IF s[p] = "@" /\ \E n \in 1..3 : BroadcastWord(s, p, BroadcastRanges[n])
    THEN LET w == BroadcastRanges[CHOOSE n \in 1..3 :
                                    /\ BroadcastWord(s, p, BroadcastRanges[n])
                                    /\ \A o \in 1..(n - 1) :
                                        ~BroadcastWord(s, p, BroadcastRanges[o])]
         IN  Match(9, p, p + Len(w), w, None)
    ELSE NoMatch

\* (@([a-zA-Z0-9_.-]+))
UserMention(s, p) ==
    IF s[p] = "@" /\ RunIn(s, p + 1, UsernameChars) >= p + 1
    THEN Match(10, p, RunIn(s, p + 1, UsernameChars),
               SubSeq(s, p + 1, RunIn(s, p + 1, UsernameChars)), None)
    ELSE NoMatch

\* variant: the @username alternative comes before the broadcast one
AlternativesMentionFirst(s, p) ==
    <<DoubleAsterisk(s, p), SingleAsterisk(s, p), Delimited(s, p, "_", 3),
      Delimited(s, p, "~", 4), Delimited(s, p, Backtick, 5), BracketLink(s, p),
      RawUrl(s, p), EmojiCode(s, p), UserMention(s, p), BroadcastMention(s, p)>>

\* the alternatives of the pattern, in its order, tried at p
Alternatives(s, p) ==
    <<DoubleAsterisk(s, p), SingleAsterisk(s, p), Delimited(s, p, "_", 3),
      Delimited(s, p, "~", 4), Delimited(s, p, Backtick, 5), BracketLink(s, p),
      RawUrl(s, p), EmojiCode(s, p), BroadcastMention(s, p), UserMention(s, p)>>

\* pattern.match(s, p): the first alternative that matches at p
MatchAt(s, p) ==
    LET alts == Alternatives(s, p)
    IN  IF \A n \in 1..Len(alts) : alts[n] = NoMatch THEN NoMatch
        ELSE alts[CHOOSE n \in 1..Len(alts) :
                    alts[n] # NoMatch /\ \A o \in 1..(n - 1) : alts[o] = NoMatch]

\* pattern.search(s, pos): the match at the leftmost index from pos on
Search(s, pos) ==
    IF \A p \in pos..Len(s) : MatchAt(s, p) = NoMatch THEN NoMatch
    ELSE MatchAt(s, CHOOSE p \in pos..Len(s) :
                        /\ MatchAt(s, p) # NoMatch
                        /\ \A o \in pos..(p - 1) : MatchAt(s, o) = NoMatch)

\* pattern.finditer(s): every match is non-empty, so the scan resumes right
\* after the end of the previous match
RECURSIVE FindIter(_, _)
FindIter(s, pos) ==
    IF Search(s, pos) = NoMatch THEN <<>>
    ELSE <<Search(s, pos)>> \o FindIter(s, Search(s, pos).end + 1)

\* variant: the final "/" characters are not removed before the split
UrlLabelKeepSlash(url) ==
    IF Contains(url, <<"g", "i", "t", "h", "u", "b", ".", "c", "o", "m">>)
    THEN IF \/ Contains(url, <<"/", "p", "u", "l", "l", "/">>)
            \/ Contains(url, <<"/", "i", "s", "s", "u", "e", "s", "/">>)
         THEN LET parts == Split(url, "/")
              IN  IF Len(parts) >= 2
                  THEN parts[Len(parts) - 1] \o <<"/">> \o parts[Len(parts)]
                  ELSE url
         ELSE LET parts == Split(url, "/")
              IN  SubSeq(parts[Len(parts)], 1, Min2(20, Len(parts[Len(parts)])))
    ELSE SubSeq(url, 1, Min2(30, Len(url)))
            \o (IF Len(url) > 30 THEN <<".", ".", ".">> ELSE <<>>)

\* the label of a raw URL
UrlLabel(url) ==
    IF Contains(url, <<"g", "i", "t", "h", "u", "b", ".", "c", "o", "m">>)
    THEN IF \/ Contains(url, <<"/", "p", "u", "l", "l", "/">>)
            \/ Contains(url, <<"/", "i", "s", "s", "u", "e", "s", "/">>)
         THEN LET parts == Split(RStripSlash(url), "/")
              IN  IF Len(parts) >= 2
                  THEN parts[Len(parts) - 1] \o <<"/">> \o parts[Len(parts)]
                  ELSE url
         ELSE LET parts == Split(url, "/")
              IN  SubSeq(parts[Len(parts)], 1, Min2(20, Len(parts[Len(parts)])))
    ELSE SubSeq(url, 1, Min2(30, Len(url)))
            \o (IF Len(url) > 30 THEN <<".", ".", ".">> ELSE <<>>)

\* the element appended for one match
SpanOf(m) ==
    IF m.alt \in {1, 2} THEN Styled(m.g, "bold")
    ELSE IF m.alt = 3 THEN Styled(m.g, "italic")
    ELSE IF m.alt = 4 THEN Styled(m.g, "strike")
    ELSE IF m.alt = 5 THEN Styled(m.g, "code")
    ELSE IF m.alt = 6 THEN Link(m.g, IF m.h # None THEN m.h ELSE m.g)
    ELSE IF m.alt = 7 THEN Link(m.g, UrlLabel(m.g))
    ELSE IF m.alt = 8 THEN Emoji(m.g)
    ELSE IF m.alt = 9 THEN Broadcast(m.g)
    ELSE Styled(<<"@">> \o m.g, "bold")

\* the body of "for match in pattern.finditer(line_content)" and the remaining
\* text after the last match, from the match number n with pos characters
\* consumed
RECURSIVE LineElements(_, _, _, _)
LineElements(line_content, matches, n, pos) ==
    IF n > Len(matches)
    THEN IF pos < Len(line_content)
         THEN <<PlainText(SubSeq(line_content, pos + 1, Len(line_content)))>>
         ELSE <<>>
    ELSE (IF matches[n].start - 1 > pos
          THEN <<PlainText(SubSeq(line_content, pos + 1, matches[n].start - 1))>>
          ELSE <<>>)
         \o <<SpanOf(matches[n])>>
         \o LineElements(line_content, matches, n + 1, matches[n].end)

\* is_bullet
IsBullet(line) ==
    \/ StartsWith(Strip(line), 1, <<Bullet>>)
    \/ /\ StartsWith(Strip(line), 1, <<"-">>)
       /\ Len(Strip(line)) > 1
       /\ Strip(line)[2] = " "

\* lines[line_idx - 1].strip().startswith((U+2022, "-"))
StartsWithMarker(line) ==
    StartsWith(Strip(line), 1, <<Bullet>>) \/ StartsWith(Strip(line), 1, <<"-">>)

\* re.sub(r"^[\s<U+2022>-]+", "", line).lstrip() for a bullet line, the line
\* otherwise
LineContent(line) ==
    IF IsBullet(line)
    THEN LStrip(SubSeq(line, RunIn(line, 1, Whitespace \cup {Bullet, "-"}) + 1, Len(line)))
    ELSE line

\* one iteration of "for line_idx, line in enumerate(lines)" (line_idx from 1)
LineSpans(lines, line_idx) ==
    (IF /\ IsBullet(lines[line_idx])
        /\ line_idx > 1
        /\ ~StartsWithMarker(lines[line_idx - 1])
     THEN <<Newline>> ELSE <<>>)
    \o LineElements(LineContent(lines[line_idx]),
                    FindIter(LineContent(lines[line_idx]), 1), 1, 0)
    \o (IF line_idx < Len(lines) THEN <<Newline>> ELSE <<>>)

RECURSIVE AllLineSpans(_, _)
AllLineSpans(lines, line_idx) ==
    IF line_idx > Len(lines) THEN <<>>
    ELSE LineSpans(lines, line_idx) \o AllLineSpans(lines, line_idx + 1)

\* parse_rich_text_from_string(text) for a str
ParseRichTextFromString(text) ==
    IF IsBlank(text) THEN <<PlainText(<<" ">>)>>
    ELSE IF AllLineSpans(Split(text, "\n"), 1) # <<>>
         THEN AllLineSpans(Split(text, "\n"), 1)
         ELSE <<PlainText(text)>>

\* ------------------------------------- direct calls of the parser: markers
MaxPieces == 3
ParsePieces ==
    {<<"*">>,
     <<"*", "*">>,
     <<"_">>,
     <<"~">>,
     <<Backtick>>,
     <<"a">>,
     <<" ">>,
     <<":">>,
     <<"@", "h", "e", "r", "e">>,
     <<".">>,
     <<"<", "h", "t", "t", "p", ":", "/", "/", "x", "|">>,
     <<">">>,
     <<"h", "t", "t", "p", ":", "/", "/", "y">>}

\* the texts made of at most n pieces
RECURSIVE TextsOf(_)
TextsOf(n) ==
    IF n = 0 THEN {<<>>}
    ELSE TextsOf(n - 1) \cup {t \o piece : t \in TextsOf(n - 1), piece \in ParsePieces}

\* the state around a direct call of the parser
ParseIdle ==
    /\ users = SubSeq(UserNames, 1, 1)
    /\ strategy = "round_robin"
    /\ forced_user = None
    /\ reply_counts = <<>>
    /\ dry_run = FALSE
    /\ total_posts = 0
    /\ pc = "parse"
    /\ i = 0
    /\ posting_user = None
    /\ thread_ts = None
    /\ ai_reactions = <<>>
    /\ r_idx = 0
    /\ reply_idx = 0
    /\ reply = NoReply
    /\ reply_user = None
    /\ sel_index = -1
    /\ success = 0
    /\ failed = 0
    /\ result = NoResult
    /\ sent = NoCall
    /\ slept = <<>>
    /\ fn = None
    /\ attempt_number = 0
    /\ waits = <<>>
    /\ resps = <<>>
    /\ FetchIdle

\* the argument is a str made of the pieces, or a value of another type
InitParse ==
    /\ ParseIdle
    /\ \E t \in TextsOf(MaxPieces) :
          /\ msg_data = [text |-> t, user |-> None]
          /\ \/ text_type = "str"
             \/ t = <<>> /\ text_type \in TextTypes

\* parse_rich_text_from_string(msg_data.text): what is not a str is rejected
\* before anything else is done
CallParse ==
    /\ pc = "parse"
    /\ IF text_type = "str"
       THEN /\ result' = Return(ParseRichTextFromString(msg_data.text))
            /\ pc' = "parse_done"
       ELSE /\ result' = Raise("InvalidMessageFormatError", "")
            /\ pc' = "parse_raised"
    /\ UNCHANGED <<config_vars, fetch_vars, client_vars, i, msg_data, posting_user, thread_ts,
                   ai_reactions, r_idx, reply_idx, reply, reply_user, sel_index,
                   success, failed, sent, slept>>

NextParse == CallParse

SpecParse == InitParse /\ [][NextParse]_vars

\* --------------------------------------- direct calls of the parser: lines
MaxLineChars == 5
LineChars == {"\n", "-", " ", Bullet, "a"}

RECURSIVE LineTextsOf(_)
LineTextsOf(n) ==
    IF n = 0 THEN {<<>>}
    ELSE LineTextsOf(n - 1) \cup {Append(t, c) : t \in LineTextsOf(n - 1), c \in LineChars}

InitParseLines ==
    /\ ParseIdle
    /\ text_type = "str"
    /\ \E t \in LineTextsOf(MaxLineChars) : msg_data = [text |-> t, user |-> None]

SpecParseLines == InitParseLines /\ [][NextParse]_vars

\* ----------------------------------- direct calls of the parser: asterisks
MaxBoldChars == 5
BoldChars == {"*", "a", " "}

RECURSIVE BoldTextsOf(_)
BoldTextsOf(n) ==
    IF n = 0 THEN {<<>>}
    ELSE BoldTextsOf(n - 1) \cup {Append(t, c) : t \in BoldTextsOf(n - 1), c \in BoldChars}

InitParseBold ==
    /\ ParseIdle
    /\ text_type = "str"
    /\ \E t \in BoldTextsOf(MaxBoldChars) : msg_data = [text |-> t, user |-> None]

SpecParseBold == InitParseBold /\ [][NextParse]_vars

\* ------------------------------------ direct calls of the parser: raw URLs
MaxSegments == 3
UrlSchemes == {<<"h", "t", "t", "p", ":", "/", "/">>, <<"h", "t", "t", "p", "s", ":", "/", "/">>}
UrlHosts == {<<"g", "i", "t", "h", "u", "b", ".", "c", "o", "m">>, <<"x", ".", "i", "o">>}
UrlSegments ==
    {<<"p", "u", "l", "l">>,
     <<"i", "s", "s", "u", "e", "s">>,
     <<"o">>,
     <<"1", "2">>,
     <<"a", "a", "a", "a", "a", "a", "a", "a", "a", "a", "a", "a", "a", "a", "a", "a", "a", "a", "a", "a", "a">>}

\* the paths made of at most n segments, each with or without a final "/"
RECURSIVE UrlPathsOf(_)
UrlPathsOf(n) ==
    IF n = 0 THEN {<<>>}
    ELSE UrlPathsOf(n - 1)
            \cup {path \o <<"/">> \o seg : path \in UrlPathsOf(n - 1), seg \in UrlSegments}

RawUrls ==
    {scheme \o host \o path \o slash :
        scheme \in UrlSchemes, host \in UrlHosts, path \in UrlPathsOf(MaxSegments),
        slash \in {<<>>, <<"/">>}}

InitParseUrl ==
    /\ ParseIdle
    /\ text_type = "str"
    /\ \E url \in RawUrls, around \in {<<<<>>, <<>>>>, <<<<"a", " ">>, <<" ", "b">>>>} :
        msg_data = [text |-> around[1] \o url \o around[2], user |-> None]

SpecParseUrl == InitParseUrl /\ [][NextParse]_vars

\* ============================================================ properties
\* the "error" field of an answer that was parsed and is not ok (None otherwise)
ErrorOf(resp) == IF resp.exc = "" /\ ~resp.ok THEN resp.error ELSE None

\* a direct call of f has ended after at least one HTTP attempt
Ended(f) == pc = "client_done" /\ fn = f /\ Len(resps) > 0
LastResp == resps[Len(resps)]

C2_RateLimitRaisesOnce ==
    \A f \in {"post_message", "add_reaction"} :
        Ended(f) =>
            /\ \A k \in 1..Len(resps) : ErrorOf(resps[k]) = "ratelimited" => k = Len(resps)
            /\ ErrorOf(LastResp) = "ratelimited" =>
                /\ result.kind = "raise"
                /\ result.exc = "SlackRateLimitError"
                /\ result.val = (IF LastResp.retry_after = None THEN "60"
                                 ELSE LastResp.retry_after)
                /\ attempt_number = Len(resps)
            /\ ErrorOf(resps[1]) = "ratelimited" => attempt_number = 1

C2_Witness ==
    /\ Ended("post_message")
    /\ Len(resps) = 3
    /\ resps[1].exc \in TransportExceptions
    /\ resps[2].exc \in TransportExceptions
    /\ ErrorOf(resps[3]) = "ratelimited"
    /\ resps[3].retry_after = "30"
    /\ result = Raise("SlackRateLimitError", "30")

SoftAnswer(resp) ==
    \/ resp.exc = "JSONDecodeError"
    \/ /\ resp.exc = ""
       /\ ~resp.ok
       /\ resp.error \notin {"ratelimited", "channel_not_found", "not_in_channel",
                             "invalid_auth", "token_revoked", "token_expired"}

\* the value a soft failure of f returns
SoftFailure(f) == Return(IF f = "post_message" THEN None ELSE "False")

C6_BackoffAsStated ==
    /\ Len(waits) >= 1 => waits[1] = 2
    /\ Len(waits) >= 2 => waits[2] = 4
    /\ \A k \in 1..Len(waits) : waits[k] <= 30
    /\ pc = "client_done" => Len(waits) = attempt_number - 1

\* C6, amended: the wait before the 2nd attempt and the wait before the 3rd
\* attempt are both 2 s; no wait exceeds 30 s; the waits are one fewer than the
\* attempts, so that none follows the last attempt.
C6_Backoff ==
    /\ Len(waits) >= 1 => waits[1] = 2
    /\ Len(waits) >= 2 => waits[2] = 2
    /\ \A k \in 1..Len(waits) : waits[k] <= 30
    /\ Len(waits) <= 2
    /\ pc = "client_done" => Len(waits) = attempt_number - 1

C6_Witness ==
    /\ pc = "client_done"
    /\ attempt_number = 3
    /\ waits = <<2, 2>>

C8_ReplyFailureIsolated ==
    [][(\/ /\ pc = "for_reply"
           /\ result'.kind = "raise"
           /\ result'.exc = "InvalidMessageFormatError"
        \/ /\ pc = "post_reply"
           /\ ~Truthy(result'))
        => /\ failed' = failed + 1
           /\ success' = success
           /\ reply_idx + 1 < reply_counts[i]
                => /\ pc' = "for_reply"
                   /\ i' = i
                   /\ reply_idx' = reply_idx + 1]_vars

\* ------------------------------------------------------------------- C9
\* C9 as stated: the index passed to select_user for a reply that names no
\* identity is a counter of the replies of the run: at each such call it is one
\* more than at the previous call for a reply.
C9_ReplyIndexRunWide ==
    [][(pc = "for_reply" /\ pc' = "post_reply" /\ reply'.user = None /\ sel_index # -1)
        => sel_index' = sel_index + 1]_vars

\* C9, amended: the index passed to select_user for the reply at 0-based
\* position j of the message at 0-based position k is k + 1 + j, whatever came
\* before; under round_robin a reply naming no identity is therefore posted by
\* users[(k + 1 + j) mod n].
C9_ReplyIndex ==
    pc = "post_reply" =>
        /\ sel_index = (i - 1) + 1 + reply_idx
        /\ (reply.user = None /\ strategy = "round_robin")
            => reply_user = users[(((i - 1) + 1 + reply_idx) % Len(users)) + 1]

C9_Witness ==
    /\ pc = "post_reply"
    /\ i = 2
    /\ reply_idx = 0
    /\ reply_counts[1] = 2
    /\ success = 4
    /\ reply.user = None
    /\ sel_index = 2

\* ------------------------------------------------------------------ C10
\* C10: a top-level message at 0-based position k that names no identity, in
\* a run without a forced user and under round_robin with n identities, is
\* posted by users[k mod n], however many replies the earlier messages had.
C10_TopLevelRoundRobin ==
    (pc = "post_message" /\ msg_data.user = None /\ forced_user = None
        /\ strategy = "round_robin")
        => posting_user = users[((i - 1) % Len(users)) + 1]

C10_Witness ==
    /\ pc = "post_message"
    /\ i = 3
    /\ Len(users) = 2
    /\ reply_counts[1] = 1
    /\ success = 3
    /\ msg_data.user = None
    /\ forced_user = None
    /\ strategy = "round_robin"
    /\ posting_user = users[1]

\* ------------------------------------------------------------------ C11
\* C11: select_user given a name returns the identity of exactly that name,
\* whatever the strategy and the message_index; it raises, returning no
\* identity, when no configured identity has that name; and on an empty list
\* of identities it raises whether or not a name is given.
C11_ExplicitNameWins ==
    pc = "select_done" =>
        /\ (msg_data.user \notin {None, ""} /\ msg_data.user \in Range(users))
            => result = Return(msg_data.user) /\ posting_user = msg_data.user
        /\ (msg_data.user \notin {None, ""} /\ msg_data.user \notin Range(users))
            => result = Raise("ValueError", "") /\ posting_user = None
        /\ users = <<>> => result = Raise("ValueError", "") /\ posting_user = None

C11_Witness ==
    /\ pc = "select_done"
    /\ users = <<"default", "alice">>
    /\ strategy = "random"
    /\ sel_index = 2
    /\ msg_data.user = "alice"
    /\ posting_user = "alice"

\* ------------------------------------------------------------------ C12
\* the place of a call site in the program order of one iteration
SiteRank(site) ==
    IF site = "message" THEN 0 ELSE IF site \in {"reaction", "fallback"} THEN 1 ELSE 2

\* call a comes before call b in the program order of one message
Before(a, b) ==
    /\ a.msg = b.msg
    /\ \/ SiteRank(a.site) < SiteRank(b.site)
       \/ SiteRank(a.site) = SiteRank(b.site) /\ a.idx < b.idx

\* C12: main makes its delivery calls one at a time in program order: every
\* call is for the current message; the first call of a message is its
\* create-message call; each later call of the message comes after the
\* previous one in the order post, reactions, replies, the replies by position
\* in the list; and the loop moves to the next message, one message at a
\* time, only once the iteration of the current one is over.
C12_CallsInProgramOrder ==
    /\ [][(sent' # sent /\ sent' # NoCall)
            => /\ i' = i
               /\ sent'.msg = i
               /\ IF sent = NoCall THEN sent'.site = "message" ELSE Before(sent, sent')]_vars
    /\ [][i' # i => (i' = i + 1 /\ sent = NoCall /\ sent' = NoCall)]_vars

C12_Witness ==
    /\ i = 2
    /\ sent = PostCall("reply", 2, 1, thread_ts)
    /\ success = 6

\* ------------------------------------------------------------------ C13
\* C13: the ts returned by the successful post of a message is kept as the
\* thread anchor for the rest of its iteration; every create-message call for
\* a reply carries that ts as thread_ts together with reply_broadcast =
\* "false"; the call for a top-level message carries neither field; and after
\* a top-level post that did not succeed no reply of that message is attempted.
C13_RepliesThreaded ==
    /\ [][(pc = "post_message" /\ Truthy(result')) => thread_ts' = result'.val]_vars
    /\ [][(pc \in {"for_reaction", "for_reply", "post_reply"}
            /\ pc' \in {"for_reaction", "for_reply", "post_reply"})
            => thread_ts' = thread_ts]_vars
    /\ [][(sent' # sent /\ sent'.site = "reply")
            => /\ thread_ts \in TsSet
               /\ sent'.thread_ts = thread_ts
               /\ sent'.reply_broadcast = "false"]_vars
    /\ [][(sent' # sent /\ sent'.site = "message")
            => sent'.thread_ts = None /\ sent'.reply_broadcast = None]_vars
    /\ [][(pc = "post_message" /\ ~Truthy(result'))
            => pc' \notin {"for_reaction", "for_reply", "post_reply"}]_vars
    /\ [][pc' \in {"for_reply", "post_reply"}
            => pc \in {"for_reaction", "for_reply", "post_reply"}]_vars

C13_Witness ==
    /\ sent.site = "reply"
    /\ sent.idx = 1
    /\ sent.thread_ts = "1700.1"
    /\ sent.reply_broadcast = "false"
    /\ thread_ts = "1700.1"
    /\ failed = 1

\* ------------------------------------------------------------------ C14
\* the part of a reaction name between its first and its last character that
\* is not a colon (empty when the name holds colons only)
EmojiName(name) ==
    LET ks == {k \in 1..Len(name) : name[k] # ":"}
    IN  IF ks = {} THEN <<>>
        ELSE SubSeq(name, CHOOSE k \in ks : \A j \in ks : k <= j,
                          CHOOSE k \in ks : \A j \in ks : j <= k)

\* C14: for a successfully posted message with an explicit reaction list, main
\* walks the list from its first name to its last, one name per iteration; for
\* each name that is not empty once its colons are stripped it makes exactly
\* one add_reaction call, with the stripped name in its own casing and the ts
\* of that message, and for a name of colons only it makes no call; a message
\* whose post failed gets no add_reaction call.
C14_OneCallPerReaction ==
    /\ [][(pc = "for_reaction" /\ r_idx < Len(ai_reactions))
            => /\ pc' = "for_reaction"
               /\ r_idx' = r_idx + 1
               /\ ai_reactions' = ai_reactions
               /\ thread_ts' = thread_ts
               /\ i' = i
               /\ IF EmojiName(ai_reactions[r_idx + 1]) # <<>>
                  THEN sent' = [NoCall EXCEPT !.site = "reaction", !.msg = i,
                                    !.idx = r_idx,
                                    !.emoji = EmojiName(ai_reactions[r_idx + 1]),
                                    !.timestamp = thread_ts]
                  ELSE sent' = sent]_vars
    /\ [][(pc # "for_reaction" /\ pc' = "for_reaction")
            => /\ pc = "post_message"
               /\ Truthy(result')
               /\ thread_ts' = result'.val
               /\ r_idx' = 0]_vars
    /\ [][(pc = "for_reaction" /\ pc' # "for_reaction")
            => r_idx = Len(ai_reactions)]_vars
    /\ [][(sent' # sent /\ sent'.site = "reaction")
            => /\ pc = "for_reaction"
               /\ r_idx < Len(ai_reactions)
               /\ thread_ts \in TsSet]_vars
    /\ [][(pc = "post_message" /\ ~Truthy(result'))
            => /\ pc' # "for_reaction"
               /\ sent'.site = "message"]_vars

C14_Witness ==
    /\ pc = "for_reaction"
    /\ r_idx = 3
    /\ Len(ai_reactions) = 3
    /\ sent = ReactionCall("reaction", 2, 2, <<"b">>, "1700.1")
    /\ failed = 1

\* ------------------------------------------------------------------ C15
\* C15: no step of main sleeps more than one delay.  The inter-message delay
\* is slept at the end of the iteration of every message but the last, and
\* nowhere else, so a run over n messages sleeps it n-1 times and the next
\* message starts right after it.  Every iteration of the reply loop sleeps the
\* reply delay once, and a reply is posted only by the step that follows that
\* sleep, which sleeps nothing itself.  Every add_reaction call is made in a
\* step that has slept the reaction delay once.
C15_DelaysHonoured ==
    /\ [](Len(slept) <= 1)
    /\ []((pc = "for_message" /\ 0 < i) =>
            slept = IF i < Len(reply_counts) THEN <<"delay">> ELSE <<>>)
    /\ [][slept' = <<"delay">> =>
            (pc = "advance" /\ pc' = "for_message" /\ i' = i /\ i < Len(reply_counts))]_vars
    /\ [][i' # i => (slept = IF i = 0 THEN <<>> ELSE <<"delay">>) /\ slept' = <<>>]_vars
    /\ [][(pc = "for_reply" /\ reply_idx < reply_counts[i])
            => slept' = <<"reply_delay">>]_vars
    /\ [][slept' = <<"reply_delay">>
            => (pc = "for_reply" /\ reply_idx < reply_counts[i] /\ sent' = sent)]_vars
    /\ [][(sent' # sent /\ sent'.site = "reply")
            => (pc = "post_reply" /\ slept = <<"reply_delay">> /\ slept' = <<>>)]_vars
    /\ [][(sent' # sent /\ sent'.site \in {"reaction", "fallback"})
            => slept' = <<"reaction_delay">>]_vars
    /\ [][slept' = <<"reaction_delay">> => pc = "for_reaction"]_vars

C15_Witness ==
    /\ pc = "for_message"
    /\ i = 1
    /\ Len(reply_counts) = 2
    /\ reply_counts[1] = 2
    /\ success = 3
    /\ slept = <<"delay">>

\* ------------------------------------------------------------------ C16
\* C16: in a dry run main never reaches the posting loop: whatever the
\* messages, the identities and the strategy, it makes no post_message call
\* and no add_reaction call, counts nothing and sleeps nothing.
C16_DryRunMakesNoCall ==
    dry_run =>
        /\ pc \in {"preview", "dry_run_done"}
        /\ sent = NoCall
        /\ result = NoResult
        /\ success = 0
        /\ failed = 0
        /\ i = 0
        /\ slept = <<>>

C16_Witness ==
    /\ dry_run
    /\ pc = "dry_run_done"
    /\ reply_counts = <<2, 1>>
    /\ users = <<"default", "alice">>

\* ------------------------------------------------------------------ C17
\* C17: for every str, parse_rich_text_from_string returns (it does not raise)
\* a sequence of spans that is not empty and in which no span has an empty text
\* (label, name or range); for the empty string and for a string of whitespace
\* only it returns exactly the one plain span " ".
C17_NonEmptySpans ==
    pc = "parse_done" =>
        /\ result.kind = "return"
        /\ result.val # <<>>
        /\ \A n \in 1..Len(result.val) :
            /\ result.val[n].type \in {"text", "link"} => Len(result.val[n].text) > 0
            /\ result.val[n].type = "emoji" => Len(result.val[n].name) > 0
            /\ result.val[n].type = "broadcast" => Len(result.val[n].range) > 0
        /\ IsBlank(msg_data.text) => result.val = <<PlainText(<<" ">>)>>

\* ------------------------------------------------------------------ C18
\* the alternative number alt of the pattern, tried at p
PatternAt(s, p, alt) ==
    CASE alt = 1 -> DoubleAsterisk(s, p)
      [] alt = 2 -> SingleAsterisk(s, p)
      [] alt = 3 -> Delimited(s, p, "_", 3)
      [] alt = 4 -> Delimited(s, p, "~", 4)
      [] alt = 5 -> Delimited(s, p, Backtick, 5)
      [] alt = 6 -> BracketLink(s, p)
      [] alt = 7 -> RawUrl(s, p)
      [] alt = 8 -> EmojiCode(s, p)
      [] alt = 9 -> BroadcastMention(s, p)
      [] alt = 10 -> UserMention(s, p)

\* type and style of the span that each alternative emits
KindOf ==
    <<<<"text", "bold">>, <<"text", "bold">>, <<"text", "italic">>,
      <<"text", "strike">>, <<"text", "code">>, <<"link", None>>, <<"link", None>>,
      <<"emoji", None>>, <<"broadcast", None>>, <<"text", "bold">>>>

\* a span that comes from a match, not from the text between two matches
IsMarked(span) == span.type # "text" \/ span.style # None
IsUnmarked(span) == ~IsMarked(span)

RECURSIVE SumLen(_)
SumLen(spans) == IF spans = <<>> THEN 0 ELSE Len(Head(spans).text) + SumLen(Tail(spans))
RECURSIVE SumMatched(_)
SumMatched(matches) ==
    IF matches = <<>> THEN 0
    ELSE (Head(matches).end - Head(matches).start + 1) + SumMatched(Tail(matches))

\* C18: within a line that is not blank the matches are taken from left to
\* right: each match starts after the end of the one before, no pattern
\* matches at any index skipped between two matches or after the last, and
\* the match taken at an index is that of the first pattern, in the order
\* double asterisk, single asterisk, underscore, tilde, backtick, bracketed
\* link, raw URL, emoji, broadcast, @username, that matches there.  The spans
\* returned are one span per match, of the type and style of its pattern, and
\* plain spans that hold exactly the characters no match covers.  "@here"
\* alone yields the broadcast span.
C18_LeftmostFirstPattern ==
    (pc = "parse_done" /\ ~IsBlank(msg_data.text)
        /\ Len(Split(msg_data.text, "\n")) = 1 /\ ~IsBullet(msg_data.text)) =>
        LET line == msg_data.text
            matches == FindIter(line, 1)
            marked == SelectSeq(result.val, IsMarked)
        IN  /\ \A n \in 1..Len(matches) :
                /\ matches[n].start <= matches[n].end
                /\ n > 1 => matches[n].start > matches[n - 1].end
                /\ \A p \in (IF n = 1 THEN 1 ELSE matches[n - 1].end + 1)
                                ..(matches[n].start - 1) :
                        \A alt \in 1..10 : PatternAt(line, p, alt) = NoMatch
                /\ PatternAt(line, matches[n].start, matches[n].alt) = matches[n]
                /\ \A alt \in 1..(matches[n].alt - 1) :
                        PatternAt(line, matches[n].start, alt) = NoMatch
            /\ \A p \in (IF matches = <<>> THEN 1 ELSE matches[Len(matches)].end + 1)
                            ..Len(line) :
                    \A alt \in 1..10 : PatternAt(line, p, alt) = NoMatch
            /\ Len(marked) = Len(matches)
            /\ \A n \in 1..Len(matches) :
                    <<marked[n].type, marked[n].style>> = KindOf[matches[n].alt]
            /\ SumLen(SelectSeq(result.val, IsUnmarked)) + SumMatched(matches) = Len(line)
            /\ line = <<"@", "h", "e", "r", "e">> =>
                    result.val = <<Broadcast(<<"h", "e", "r", "e">>)>>

C18_Witness ==
    /\ pc = "parse_done"
    /\ msg_data.text = <<"@", "h", "e", "r", "e", ".">>
    /\ result.val = <<Broadcast(<<"h", "e", "r", "e">>), PlainText(<<".">>)>>

\* ------------------------------------------------------------------ C19
\* the spans of the line number line_idx when the extra newline span is
\* decided by whether the previous line is a bullet line
BulletRuleLineSpans(lines, line_idx) ==
    (IF /\ IsBullet(lines[line_idx])
        /\ line_idx > 1
        /\ ~IsBullet(lines[line_idx - 1])
     THEN <<Newline>> ELSE <<>>)
    \o LineElements(LineContent(lines[line_idx]),
                    FindIter(LineContent(lines[line_idx]), 1), 1, 0)
    \o (IF line_idx < Len(lines) THEN <<Newline>> ELSE <<>>)

RECURSIVE BulletRuleSpans(_, _)
BulletRuleSpans(lines, line_idx) ==
    IF line_idx > Len(lines) THEN <<>>
    ELSE BulletRuleLineSpans(lines, line_idx) \o BulletRuleSpans(lines, line_idx + 1)

\* C19: for a text that is not blank the spans returned are, line by line:
\* one extra newline span when the line is a bullet line (its stripped form
\* starts with the bullet character or with "-" and a space), is not the first
\* line, and the line before it is not a bullet line by that same rule; then
\* the spans of the content of the line, which for a bullet line is the line
\* without its leading whitespace and bullet marker; then one newline span
\* unless the line is the last.
C19_NewlineSpans ==
    (pc = "parse_done" /\ ~IsBlank(msg_data.text)) =>
        result.val =
            IF BulletRuleSpans(Split(msg_data.text, "\n"), 1) # <<>>
            THEN BulletRuleSpans(Split(msg_data.text, "\n"), 1)
            ELSE <<PlainText(msg_data.text)>>

\* ------------------------------------------------------------------ C20
\* the raw URL of a text whose words are separated by single spaces
UrlOf(text) ==
    CHOOSE word \in Range(Split(text, " ")) : StartsWith(word, 1, <<"h", "t", "t", "p">>)
EndsWith(s, w) == Len(w) <= Len(s) /\ SubSeq(s, Len(s) - Len(w) + 1, Len(s)) = w
CountOf(s, c) == Cardinality({k \in 1..Len(s) : s[k] = c})
\* what follows the last "/" of a URL
FinalSegment(url) ==
    SubSeq(url, (CHOOSE k \in 1..Len(url) :
                    url[k] = "/" /\ \A o \in (k + 1)..Len(url) : url[o] # "/") + 1,
           Len(url))

\* the path of a URL: what follows its scheme and host
PathOf(url) == SubSeq(url, RunNotIn(url, SchemeEnd(url, 1), {"/"}) + 1, Len(url))

C21_NonTextRejected ==
    (pc = "client_done" /\ fn = "post_message" /\ text_type # "str") =>
        /\ result = Raise("InvalidMessageFormatError", "")
        /\ attempt_number = 1
        /\ resps = <<>>
        /\ waits = <<>>

\* ------------------------------------------------------------------ C22
\* C22 as stated: add_reaction answered with channel_not_found, not_in_channel,
\* invalid_auth, token_revoked or token_expired raises SlackAPIError after
\* exactly one attempt and does not return a boolean.
C22_FatalCodeRaisesAsStated ==
    (Ended("add_reaction")
        /\ ErrorOf(resps[1]) \in FatalChannelCodes \cup FatalAuthCodes) =>
        /\ result.kind = "raise"
        /\ result.exc = "SlackAPIError"
        /\ attempt_number = 1

\* C22: add_reaction answered with one of these five codes returns False and
\* raises nothing; the request is not issued again (exactly one attempt when it
\* is the first answer).
C22_FatalCodeReturnsFalse ==
    Ended("add_reaction") =>
        /\ ErrorOf(LastResp) \in FatalChannelCodes \cup FatalAuthCodes
                => result = Return("False")
        /\ \A k \in 1..Len(resps) :
            ErrorOf(resps[k]) \in FatalChannelCodes \cup FatalAuthCodes
                => k = Len(resps)
        /\ ErrorOf(resps[1]) \in FatalChannelCodes \cup FatalAuthCodes
                => attempt_number = 1

C22_Witness ==
    /\ Ended("add_reaction")
    /\ attempt_number = 1
    /\ ErrorOf(resps[1]) = "invalid_auth"
    /\ result = Return("False")

\* ------------------------------------------------------------------ C23
\* C23: when select_user raises the unknown-identity error for a message or
\* for a reply, the run is not aborted: the post is counted as failed and main
\* goes on with what remains, so that a run ends only in the summary.
C23_UnknownIdentityCounted ==
    [][result' = Raise("ValueError", "") =>
            /\ pc' # "crashed"
            /\ failed' = failed + 1]_vars

\* ------------------------------------------------------------------ C24
\* C24: once a fetch of the replies of a thread has observed the error code
\* ratelimited, fetch_channel_messages never returns a result, no batch is
\* dispatched any more, and under every order in which the fetches end and are
\* handled the call ends by raising SlackRateLimitError to its caller.
C24_RateLimitPropagates ==
    /\ [](pc = "fetch_returned" => seen_ratelimited = 0)
    /\ [][seen_ratelimited > 0 =>
            /\ batch_start' = batch_start
            /\ ~(pc = "fetch_for" /\ pc' = "fetch_submit")]_vars
    /\ (seen_ratelimited > 0)
            ~> (pc = "fetch_raised" /\ result = Raise("SlackRateLimitError", ""))

\* the call has raised in the first of two batches, while fetches that ended
\* with replies after the rate-limited one were never handled
C24_Witness ==
    /\ pc = "fetch_raised"
    /\ result = Raise("SlackRateLimitError", "")
    /\ seen_ratelimited = 1
    /\ threaded_messages > BatchSize
    /\ batch_start = 0
    /\ done["replies"] > 0
    /\ with_replies > 0

\* ------------------------------------------------------------------ C25
\* total_batches of the run
TotalBatches == (threaded_messages + BatchSize - 1) \div BatchSize

\* C25: the fetches of the replies run in batches of at most 10: at most 10
\* fetches are in flight at any time; a batch is dispatched only when every
\* fetch of the batch before it has ended and been handled and exactly one
\* throttle wait has been slept since; no wait is slept while a batch is in
\* hand; no wait follows the final batch.
C25_BatchesOfTen ==
    /\ [](/\ in_flight <= BatchSize
          /\ batch <= BatchSize
          /\ pc \in {"fetch_submit", "fetch_as_completed"} => throttles = BatchNum - 1
          /\ pc = "fetch_returned" => throttles = Max2(0, TotalBatches - 1))
    /\ [][(pc = "fetch_for" /\ pc' = "fetch_submit") =>
            /\ in_flight = 0
            /\ \A o \in Outcomes : done[o] = 0
            /\ yielded = batch
            /\ throttles = BatchNum - 1]_vars
    /\ [][throttles' # throttles =>
            /\ throttles' = throttles + 1
            /\ pc = "fetch_as_completed"
            /\ yielded = batch
            /\ in_flight = 0
            /\ batch_start + BatchSize < threaded_messages]_vars

\* two batches, the first of 10 fetches, one throttle wait, the call returned
C25_Witness ==
    /\ pc = "fetch_returned"
    /\ threaded_messages = BatchSize + 1
    /\ batch_start = 2 * BatchSize
    /\ throttles = 1
    /\ with_replies = threaded_messages

\* ------------------------------------------------------------------ C26
\* the :name: tokens of a text, as the names with the index of their first colon
EmojiTokens(text) ==
    {<<p, SubSeq(text, p + 1, q - 1)>> : <<p, q>> \in
        {m \in (1..Len(text)) \X (1..Len(text)) :
            /\ m[1] + 1 < m[2]
            /\ text[m[1]] = ":"
            /\ text[m[2]] = ":"
            /\ \A k \in (m[1] + 1)..(m[2] - 1) :
                    text[k] \in EmojiChars}}

\* main is past the explicit reactions of a posted message that has none
NoExplicitReactions == pc = "for_reaction" /\ ai_reactions = <<>>

\* C26: for a posted message without explicit reactions, main makes exactly one
\* add_reaction call when the text holds a :name: token, with the name of the
\* first token and the ts the post returned, and makes no add_reaction call when
\* the text holds none; either way it then leaves the reactions of the message.
C26_FallbackReaction ==
    [][NoExplicitReactions =>
            /\ pc' # "for_reaction"
            /\ IF EmojiTokens(msg_data.text) # {}
               THEN /\ sent'.site = "fallback"
                    /\ sent'.msg = i
                    /\ sent'.timestamp = thread_ts
                    /\ thread_ts \in TsSet
                    /\ \E tok \in EmojiTokens(msg_data.text) :
                        /\ sent'.emoji = tok[2]
                        /\ \A other \in EmojiTokens(msg_data.text) : tok[1] <= other[1]
               ELSE sent' = sent /\ sent.site = "message"]_vars

\* the fallback reaction of a text with an upper-case pseudo token and two tokens
C26_Witness ==
    /\ sent = ReactionCall("fallback", 1, 0, <<"w", "a", "v", "e">>, "1700.1")
    /\ Cardinality(EmojiTokens(<<"o", "k", " ", ":", "O", "K", ":", "w", "a", "v", "e", ":", ":", "b", ":">>)) = 2
    /\ pc = "for_reply"
    /\ success = 1

\* ------------------------------------------------------------------ C27
\* a pair of asterisks at p and q with no asterisk between them whose content is
\* not empty, neither starts nor ends with whitespace, and whose closing
\* asterisk is not followed by an asterisk
QualifyingPair(text, p, q) ==
    /\ p + 1 < q
    /\ text[p] = "*"
    /\ text[q] = "*"
    /\ \A k \in (p + 1)..(q - 1) : text[k] # "*"
    /\ text[p + 1] \notin Whitespace
    /\ text[q - 1] \notin Whitespace
    /\ q = Len(text) \/ text[q + 1] # "*"

\* a pair of double asterisks around a content without asterisk
DoublePair(text, p, q) ==
    /\ p + 2 < q
    /\ q + 1 <= Len(text)
    /\ text[p] = "*" /\ text[p + 1] = "*"
    /\ text[q] = "*" /\ text[q + 1] = "*"
    /\ \A k \in (p + 2)..(q - 1) : text[k] # "*"

\* the asterisks found in the plain spans of a result
RECURSIVE PlainAsterisks(_)
PlainAsterisks(spans) ==
    IF spans = <<>> THEN 0
    ELSE (IF IsUnmarked(Head(spans)) THEN CountOf(Head(spans).text, "*") ELSE 0)
            + PlainAsterisks(Tail(spans))

\* C27: in a text of letters, spaces and asterisks, a pair of single asterisks
\* gives a bold span only if its content neither starts nor ends with whitespace
\* and its closing asterisk is not followed by an asterisk; every asterisk that
\* does not delimit an emitted span stays in a plain span; and a text in which
\* no pair qualifies (a lone or unclosed marker) comes back as one plain span
\* with every character unchanged.
C27_SingleAsterisk ==
    (pc = "parse_done" /\ ~IsBlank(msg_data.text)) =>
        LET text == msg_data.text
            matches == FindIter(text, 1)
            single == {k \in 1..Len(matches) : matches[k].alt = 2}
            double == {k \in 1..Len(matches) : matches[k].alt = 1}
        IN  /\ \A k \in single :
                /\ QualifyingPair(text, matches[k].start, matches[k].end)
                /\ Styled(SubSeq(text, matches[k].start + 1, matches[k].end - 1), "bold")
                        \in Range(result.val)
            /\ Cardinality({n \in 1..Len(result.val) : result.val[n].style = "bold"})
                    = Cardinality(single) + Cardinality(double)
            /\ PlainAsterisks(result.val)
                    = CountOf(text, "*") - 2 * Cardinality(single) - 4 * Cardinality(double)
            /\ (/\ \A p, q \in 1..Len(text) : ~QualifyingPair(text, p, q)
                /\ \A p, q \in 1..Len(text) : ~DoublePair(text, p, q))
                    => result.val = <<PlainText(text)>>

\* a bold pair followed by a lone asterisk
C27_Witness ==
    /\ pc = "parse_done"
    /\ msg_data.text = <<"*", "a", "*", " ", "*">>
    /\ result.val = <<Styled(<<"a">>, "bold"), PlainText(<<" ", "*">>)>>

\* ------------------------------------------------------------------ C28
\* C28: at every point of a run success + failed <= total_posts; neither
\* counter ever decreases, a step of main adds at most 1 to one of the two
\* counters and nothing to the other, and it does so only where a message or a
\* reply is posted or rejected.
C28_CountersBounded ==
    /\ [](success + failed <= total_posts)
    /\ [][/\ success' >= success
          /\ failed' >= failed
          /\ (success' - success) + (failed' - failed) <= 1
          /\ (success' # success \/ failed' # failed)
                => pc \in {"post_message", "for_reply", "post_reply"}]_vars

\* a run that ends with posts of both kinds counted and a reply never counted
C28_Witness ==
    /\ pc = "summary"
    /\ success >= 1
    /\ failed >= 1
    /\ success + failed < total_posts

\* ------------------------------------------------------------------ C29
\* the attempts 1..k of the call in hand failed in the transport and attempt
\* k + 1 received a response
RespondedAfter(k) ==
    /\ Len(resps) >= k + 1
    /\ \A j \in 1..k : resps[j].exc \in TransportExceptions
    /\ resps[k + 1].exc \notin TransportExceptions

\* C29: when the transport fails on the first k attempts of post_message
\* (k = 1 or 2) and attempt k + 1 receives a response, the call ends after
\* exactly k + 1 attempts with what that response dictates: its ts when it is
\* ok, SlackRateLimitError with the retry-after value for ratelimited,
\* SlackAPIError naming the code for the five fatal codes, None otherwise; no
\* attempt is made after the first attempt that received a response.
C29_ResponseAfterRetries ==
    Ended("post_message") =>
        /\ \A j \in 1..(Len(resps) - 1) : resps[j].exc \in TransportExceptions
        /\ \A k \in {1, 2} : RespondedAfter(k) =>
            /\ attempt_number = k + 1
            /\ Len(resps) = k + 1
            /\ waits = [j \in 1..k |-> WaitExponential(j)]
            /\ resps[k + 1].ok => result = Return(resps[k + 1].ts)
            /\ ErrorOf(resps[k + 1]) = "ratelimited" =>
                    result = Raise("SlackRateLimitError",
                                   IF resps[k + 1].retry_after = None THEN "60"
                                   ELSE resps[k + 1].retry_after)
            /\ ErrorOf(resps[k + 1]) \in FatalChannelCodes \cup FatalAuthCodes =>
                    result = Raise("SlackAPIError", resps[k + 1].error)
            /\ SoftAnswer(resps[k + 1]) => result = Return(None)

\* two transport failures, then the post succeeds
C29_Witness ==
    /\ Ended("post_message")
    /\ RespondedAfter(2)
    /\ attempt_number = 3
    /\ resps[3].ok
    /\ result = Return("1700.1")

\* ------------------------------------------------------------------ C30
\* C30: whatever an add_reaction call of main ends with (True, False,
\* SlackRateLimitError, SlackNetworkError once the retries are exhausted), the
\* step leaves success and failed unchanged and goes on with the next explicit
\* reaction of the message or, after the last one, with the first reply of the
\* message, the ts of the message being kept as the thread anchor.
C30_ReactionOutcomeIgnored ==
    [][pc = "for_reaction" =>
            /\ success' = success
            /\ failed' = failed
            /\ thread_ts' = thread_ts
            /\ \/ /\ pc' = "for_reaction"
                  /\ r_idx < Len(ai_reactions)
                  /\ r_idx' = r_idx + 1
                  /\ ai_reactions' = ai_reactions
               \/ /\ pc' = "for_reply"
                  /\ r_idx = Len(ai_reactions)
                  /\ reply_idx' = 0]_vars

\* the last explicit reaction failed in the network after its retries: main is
\* about to leave the reactions for the replies, the counters untouched
C30_Witness ==
    /\ pc = "for_reaction"
    /\ r_idx = Len(ai_reactions)
    /\ sent.site = "reaction"
    /\ sent.idx = 2
    /\ result = Raise("SlackNetworkError", "")
    /\ success = 1
    /\ failed = 0
    /\ thread_ts = "1700.1"

====
